---- MODULE Spec2Model ----
(***************************************************************************)
(* TradingRoom: position sizing (PositionSizer.jsx), trade lifecycle       *)
(* (App.jsx handlers) and the persistence mapping (lib/supabase.js).       *)
(*                                                                         *)
(* JavaScript numbers are modelled as exact rationals extended with        *)
(* Infinity, -Infinity and NaN (IEEE-754 special values); the rounding of  *)
(* binary doubles and of DECIMAL columns is not modelled, so "=" on        *)
(* numbers below stands for "equal up to floating tolerance".              *)
(***************************************************************************)
EXTENDS Integers, Sequences, FiniteSets, TLC

----------------------------------------------------------------------------
(* Bounds of the model                                                     *)

MaxPrice == 2

MaxTrades == 2

MaxClock == 1

MaxInflight == 2

MaxOps == 4

MaxInput == 3

MaxSeries == 3

\* useState defaults of App: rValue and balance
DefaultRValue == 100

DefaultBalance == 1000

----------------------------------------------------------------------------
(* JavaScript values                                                       *)

Abs(i) == IF i < 0 THEN -i ELSE i

Sign(i) == IF i < 0 THEN -1 ELSE IF i > 0 THEN 1 ELSE 0

RECURSIVE Gcd(_, _)
Gcd(a, b) == IF b = 0 THEN a ELSE Gcd(b, a % b)

\* a finite number n/d in lowest terms
Q(n, d) ==
  CHOOSE q \in {[k |-> "num", n |-> (Sign(d) * n) \div g, d |-> Abs(d) \div g] :
                 g \in {Gcd(Abs(n), Abs(d))}} : TRUE

N(i) == Q(i, 1)

\* Infinity (s = 1) and -Infinity (s = -1)
Inf(s) == [k |-> "inf", n |-> s, d |-> 0]

NaN == [k |-> "nan", n |-> 0, d |-> 0]

NULL == [k |-> "null", n |-> 0, d |-> 0]

\* the empty string of an <input> element
EMPTY == [k |-> "empty", n |-> 0, d |-> 0]

\* the text of an <input type="number"> holding the number n/d
Str(x) == [k |-> "str", n |-> x.n, d |-> x.d]

IsNum(x) == x.k = "num"

IsFinite(x) == x.k = "num"

SignOf(x) == IF x.k \in {"num", "inf"} THEN Sign(x.n) ELSE 0

\* JavaScript truthiness: 0, NaN, null and '' are falsy; the string "0" is truthy
Truthy(x0) ==
  \E x \in {x0} : \/ x.k = "num" /\ x.n # 0
                  \/ x.k \in {"inf", "str"}

\* parseFloat of a number, a numeric string, '' or null
parseFloat(x0) ==
  CHOOSE r \in {CASE x.k = "str" -> [x EXCEPT !.k = "num"]
                  [] x.k \in {"num", "inf", "nan"} -> x
                  [] OTHER -> NaN : x \in {x0}} : TRUE

\* ToNumber coercion of an arithmetic operand (null -> 0)
ToNumber(x0) ==
  CHOOSE r \in {CASE x.k \in {"null", "empty"} -> N(0)
                  [] x.k = "str" -> [x EXCEPT !.k = "num"]
                  [] OTHER -> x : x \in {x0}} : TRUE

NumNeg(x) ==
  CASE x.k = "num" -> [x EXCEPT !.n = -x.n]
    [] x.k = "inf" -> Inf(-x.n)
    [] OTHER -> NaN

\* the arithmetic of two numbers (operands already coerced)
AddN(a, b) ==
  CASE a.k = "nan" \/ b.k = "nan" -> NaN
    [] a.k = "inf" /\ b.k = "inf" -> IF a.n = b.n THEN a ELSE NaN
    [] a.k = "inf" -> a
    [] b.k = "inf" -> b
    [] OTHER -> LET g == Gcd(a.d, b.d)        \* over the least common denominator
                IN Q(a.n * (b.d \div g) + b.n * (a.d \div g), (a.d \div g) * b.d)

MulN(a, b) ==
  CASE a.k = "nan" \/ b.k = "nan" -> NaN
    [] a.k = "inf" \/ b.k = "inf" ->
         IF SignOf(a) * SignOf(b) = 0 THEN NaN ELSE Inf(SignOf(a) * SignOf(b))
    [] OTHER -> Q(a.n * b.n, a.d * b.d)

DivN(a, b) ==
  CASE a.k = "nan" \/ b.k = "nan" -> NaN
    [] a.k = "inf" /\ b.k = "inf" -> NaN
    [] a.k = "inf" -> Inf(a.n * (IF b.n < 0 THEN -1 ELSE 1))
    [] b.k = "inf" -> N(0)
    [] b.n = 0 -> IF a.n = 0 THEN NaN ELSE Inf(Sign(a.n))
    [] OTHER -> Q(a.n * b.d, a.d * b.n)

\* a0 + b0, a0 - b0, a0 * b0, a0 / b0: each operand is evaluated once and coerced
NumAdd(a0, b0) ==
  CHOOSE r \in {AddN(a, b) : a \in {ToNumber(a0)}, b \in {ToNumber(b0)}} : TRUE

NumSub(a0, b0) ==
  CHOOSE r \in {AddN(a, NumNeg(b)) : a \in {ToNumber(a0)}, b \in {ToNumber(b0)}} : TRUE

NumMul(a0, b0) ==
  CHOOSE r \in {MulN(a, b) : a \in {ToNumber(a0)}, b \in {ToNumber(b0)}} : TRUE

NumDiv(a0, b0) ==
  CHOOSE r \in {DivN(a, b) : a \in {ToNumber(a0)}, b \in {ToNumber(b0)}} : TRUE

\* a0 > b0 and a0 >= b0; every comparison with NaN is false
GtN(a, b) ==
  /\ a.k # "nan" /\ b.k # "nan"
  /\ a # b
  /\ SignOf(AddN(a, NumNeg(b))) > 0

NumGt(a0, b0) == \E a \in {ToNumber(a0)}, b \in {ToNumber(b0)} : GtN(a, b)

NumGe(a0, b0) ==
  \E a \in {ToNumber(a0)}, b \in {ToNumber(b0)} :
     a.k # "nan" /\ b.k # "nan" /\ (a = b \/ GtN(a, b))

\* a || b
OrElse(a0, b) == CHOOSE r \in {IF Truthy(a) THEN a ELSE b : a \in {a0}} : TRUE

----------------------------------------------------------------------------
(* Position & risk calculator: PositionSizer.jsx                           *)

\* the risk buttons of the form, src/src/components/PositionSizer.jsx:390
RiskButtons == {Q(1, 2), N(1), Q(3, 2), N(2), N(3)}

\* the leverage buttons of the form, src/src/components/PositionSizer.jsx:376
LeverageButtons == {N(1), N(2), N(3), N(5), N(10), N(20), N(50), N(100)}

ZeroCalculations ==
  [positionSize |-> N(0), riskAmount |-> N(0), potentialProfit |-> N(0),
   riskRewardRatio |-> N(0), stopLossPercent |-> N(0), takeProfitPercent |-> N(0)]

\* the leverage-amplified stop distance the effect computes and never uses
effectiveStopLossPercent(stopLossPercent, leverage) == NumMul(stopLossPercent, leverage)

\* variant: the stop distance is taken relative to the stop, not to the entry
StopLossPercentOfStop(tradeType, open, sl) ==
  IF tradeType = "long"
  THEN NumMul(NumDiv(NumSub(open, sl), sl), N(100))
  ELSE NumMul(NumDiv(NumSub(sl, open), sl), N(100))

StopLossPercent(tradeType, open, sl) ==
  IF tradeType = "long"
  THEN NumMul(NumDiv(NumSub(open, sl), open), N(100))
  ELSE NumMul(NumDiv(NumSub(sl, open), open), N(100))

TakeProfitPercent(tradeType, open, tp) ==
  IF tradeType = "long"
  THEN NumMul(NumDiv(NumSub(tp, open), open), N(100))
  ELSE NumMul(NumDiv(NumSub(open, tp), open), N(100))

\* variant: the size is derived from the leverage-amplified stop distance
PositionSizeOfEffective(risk, stopLossPercent, leverage) ==
  NumDiv(risk, NumDiv(effectiveStopLossPercent(stopLossPercent, leverage), N(100)))

\* variant: the size is the leveraged notional
PositionSizeOfNotional(risk, stopLossPercent, leverage) ==
  NumMul(NumDiv(risk, NumDiv(stopLossPercent, N(100))), leverage)

\* positionSize = risk / (stopLossPercent / 100); leverage does not enter
PositionSizeOf(risk, stopLossPercent, leverage) ==
  NumDiv(risk, NumDiv(stopLossPercent, N(100)))

\* the calculation effect: f is the form, r the rValue prop
Calculate(f, r) ==
  IF Truthy(f.openPrice) /\ Truthy(f.stopLoss) /\ Truthy(r)
  THEN LET open == parseFloat(f.openPrice)
           sl == parseFloat(f.stopLoss)
           tp == OrElse(parseFloat(f.takeProfit), N(0))
           risk == NumMul(r, f.riskMultiple)
           stopLossPercent == StopLossPercent(f.tradeType, open, sl)
           positionSize == PositionSizeOf(risk, stopLossPercent, f.leverage)
           takeProfitPercent ==
             IF Truthy(tp) THEN TakeProfitPercent(f.tradeType, open, tp) ELSE N(0)
           potentialProfit ==
             IF Truthy(tp) THEN NumMul(positionSize, NumDiv(takeProfitPercent, N(100)))
             ELSE N(0)
           riskRewardRatio ==
             IF NumGt(takeProfitPercent, N(0))
             THEN NumDiv(takeProfitPercent, stopLossPercent) ELSE N(0)
       IN [positionSize |-> positionSize, riskAmount |-> risk,
           potentialProfit |-> potentialProfit, riskRewardRatio |-> riskRewardRatio,
           stopLossPercent |-> stopLossPercent, takeProfitPercent |-> takeProfitPercent]
  ELSE [ZeroCalculations EXCEPT !.riskAmount = NumMul(r, f.riskMultiple)]

----------------------------------------------------------------------------
(* Performance analytics: PerformanceTearsheet.jsx                         *)
(* Math.sqrt and Math.pow are modelled by the sign of their result: a      *)
(* finite irrational result is Approx(s), a number known to have sign s.   *)

\* a finite number of sign s whose magnitude is not modelled
Approx(s) == [k |-> "approx", n |-> s, d |-> 1]

\* Math.max and Math.min of two numbers (NaN if either is NaN)
MathMax(a0, b0) ==
  CHOOSE r \in {IF a.k = "nan" \/ b.k = "nan" THEN NaN ELSE IF GtN(b, a) THEN b ELSE a :
                 a \in {ToNumber(a0)}, b \in {ToNumber(b0)}} : TRUE

MathMin(a0, b0) ==
  CHOOSE r \in {IF a.k = "nan" \/ b.k = "nan" THEN NaN ELSE IF GtN(a, b) THEN b ELSE a :
                 a \in {ToNumber(a0)}, b \in {ToNumber(b0)}} : TRUE

\* Math.floor of a finite number, as an integer
Floor(x) == x.n \div x.d

\* Math.sqrt
MathSqrt(x) ==
  CASE x.k = "nan" -> NaN
    [] x.k = "inf" -> IF x.n > 0 THEN x ELSE NaN
    [] x.k = "approx" -> IF x.n < 0 THEN NaN ELSE x
    [] x.n < 0 -> NaN
    [] x.n = 0 -> N(0)
    [] x = N(1) -> N(1)
    [] OTHER -> Approx(1)

\* Math.pow(base, 1 / years) - 1 for a finite base and years > 0; the exponent
\* 365.25 / days is never an integer, so a negative base gives NaN
PowMinusOne(base, years) ==
  CASE base.k # "num" -> NaN
    [] base.n < 0 -> NaN
    [] base.n = 0 -> N(-1)
    [] base = N(1) -> N(0)
    [] OTHER -> Approx(IF GtN(base, N(1)) THEN 1 ELSE -1)

\* x * y and x / y where y is the result of a square root (0, 1, Approx(1), NaN
\* or Infinity) and x any number
TimesRoot(x, y) ==
  CASE x.k = "nan" \/ y.k = "nan" -> NaN
    [] x.k = "approx" \/ y.k = "approx" ->
         IF x.k = "inf" \/ y.k = "inf" THEN Inf(SignOf(x) * SignOf(y))
         ELSE IF x.n = 0 \/ y.n = 0 THEN N(0)
         ELSE Approx(Sign(x.n) * Sign(y.n))
    [] OTHER -> MulN(x, y)

OverRoot(x, y) ==
  CASE x.k = "nan" \/ y.k = "nan" -> NaN
    [] x.k = "approx" \/ y.k = "approx" ->
         IF y.k = "inf" THEN N(0)
         ELSE IF x.k = "inf" THEN Inf(x.n * (IF y.n < 0 THEN -1 ELSE 1))
         ELSE IF y.n = 0 THEN (IF x.n = 0 THEN NaN ELSE Inf(Sign(x.n)))
         ELSE IF x.n = 0 THEN N(0)
         ELSE Approx(Sign(x.n) * Sign(y.n))
    [] OTHER -> DivN(x, y)

\* x > 0 for a number that may be Approx
Positive(x) == x.k \in {"num", "inf", "approx"} /\ x.n > 0

\* a close date 'YYYY-MM-DD...' (the time of day is not modelled)
Date(y, m, d) == [k |-> "date", y |-> y, m |-> m, d |-> d]

\* new Date(date) in days since 1970-01-01
DayNumber(date) ==
  LET y == IF date.m <= 2 THEN date.y - 1 ELSE date.y
      era == y \div 400
      yoe == y - era * 400
      doy == (153 * (date.m + (IF date.m > 2 THEN -3 ELSE 9)) + 2) \div 5 + date.d - 1
      doe == yoe * 365 + yoe \div 4 - yoe \div 100 + doy
  IN era * 146097 + doe - 719468

\* variant: only the close date is required
RECURSIVE WithDateUnfiltered(_)
WithDateUnfiltered(list) ==
  IF list = <<>> THEN <<>>
  ELSE (IF Head(list).closeDate # NULL THEN <<Head(list)>> ELSE <<>>)
       \o WithDateUnfiltered(Tail(list))

\* closedTrades.filter(t => t.closeDate && t.pnlDollar != null)
RECURSIVE WithDate(_)
WithDate(list) ==
  IF list = <<>> THEN <<>>
  ELSE (IF Head(list).closeDate # NULL /\ Head(list).pnlDollar # NULL
        THEN <<Head(list)>> ELSE <<>>) \o WithDate(Tail(list))

\* insertion of t behind the elements that do not close later (a stable sort)
RECURSIVE InsertByCloseDate(_, _)
InsertByCloseDate(sorted, t) ==
  IF sorted = <<>> THEN <<t>>
  ELSE IF DayNumber(Head(sorted).closeDate) > DayNumber(t.closeDate)
       THEN <<t>> \o sorted
       ELSE <<Head(sorted)>> \o InsertByCloseDate(Tail(sorted), t)

\* [...withDate].sort((a, b) => new Date(a.closeDate) - new Date(b.closeDate))
RECURSIVE SortByCloseDate(_)
SortByCloseDate(list) ==
  IF list = <<>> THEN <<>>
  ELSE InsertByCloseDate(SortByCloseDate(SubSeq(list, 1, Len(list) - 1)), list[Len(list)])

\* sorted.reduce((s, t) => s + (t.pnlDollar || 0), 0)
RECURSIVE TotalPnL(_)
TotalPnL(sorted) ==
  IF sorted = <<>> THEN N(0)
  ELSE NumAdd(TotalPnL(SubSeq(sorted, 1, Len(sorted) - 1)),
              OrElse(sorted[Len(sorted)].pnlDollar, N(0)))

\* variant: the start balance is floored to minSensible
StartBalanceFloored(initialBalance, totalPnL) ==
  LET startBalance == NumSub(initialBalance, totalPnL)
      minSensible == MathMax(NumMul(initialBalance, Q(1, 10)), N(100))
  IN IF NumGt(minSensible, startBalance) THEN minSensible ELSE startBalance

\* initialBalance - totalPnL, replaced by max(initialBalance, 1000) when it is
\* below minSensible = max(initialBalance * 0.1, 100)
StartBalance(initialBalance, totalPnL) ==
  LET startBalance == NumSub(initialBalance, totalPnL)
      minSensible == MathMax(NumMul(initialBalance, Q(1, 10)), N(100))
  IN IF NumGt(minSensible, startBalance)
     THEN MathMax(initialBalance, N(1000))
     ELSE startBalance

\* variant: the return is not capped
CappedReturnUncapped(pnl, balanceBefore) ==
  IF NumGt(balanceBefore, N(0)) THEN NumDiv(pnl, balanceBefore) ELSE N(0)

\* r = balanceBefore > 0 ? pnl / balanceBefore : 0, capped to [-2, 2]
CappedReturn(pnl, balanceBefore) ==
  LET r == IF NumGt(balanceBefore, N(0)) THEN NumDiv(pnl, balanceBefore) ELSE N(0)
  IN MathMax(N(-2), MathMin(N(2), r))

\* the loop of buildReturnSeries; balanceBefore and running (the running balance
\* after the trade) are the loop's locals, kept with each element
RECURSIVE ReturnLoop(_, _)
ReturnLoop(sorted, running) ==
  IF sorted = <<>> THEN <<>>
  ELSE LET pnl == OrElse(Head(sorted).pnlDollar, N(0))
           balanceBefore == MathMax(running, N(1))
           next == MathMax(N(0), NumAdd(running, pnl))
       IN <<[date |-> Head(sorted).closeDate, return |-> CappedReturn(pnl, balanceBefore),
             balanceBefore |-> balanceBefore, running |-> next]>>
          \o ReturnLoop(Tail(sorted), next)

buildReturnSeries(closedTrades, initialBalance) ==
  LET sorted == SortByCloseDate(WithDate(closedTrades))
      totalPnL == TotalPnL(sorted)
      startBalance == StartBalance(initialBalance, totalPnL)
  IN IF Len(sorted) = 0
     THEN [returnSeries |-> <<>>, startBalance |-> initialBalance, totalPnL |-> N(0)]
     ELSE [returnSeries |-> ReturnLoop(sorted, startBalance),
           startBalance |-> startBalance, totalPnL |-> totalPnL]

NullMetrics ==
  [cumulativeReturn |-> NULL, annualizedReturn |-> NULL, annualizedVolatility |-> NULL,
   sharpeRatio |-> NULL, maxDrawdown |-> NULL, sortinoRatio |-> NULL]

\* returns.reduce((acc, r) => acc * (1 + r), 1)
RECURSIVE Compound(_)
Compound(returns) ==
  IF returns = <<>> THEN N(1)
  ELSE NumMul(Compound(SubSeq(returns, 1, Len(returns) - 1)),
              NumAdd(N(1), returns[Len(returns)]))

\* returns.reduce((s, r) => s + r, 0)
RECURSIVE SumOf(_)
SumOf(returns) ==
  IF returns = <<>> THEN N(0)
  ELSE NumAdd(SumOf(SubSeq(returns, 1, Len(returns) - 1)), returns[Len(returns)])

\* returns.reduce((s, r) => s + (r - c) ** 2, 0)
RECURSIVE SumOfSquares(_, _)
SumOfSquares(returns, c) ==
  IF returns = <<>> THEN N(0)
  ELSE LET dev == NumSub(returns[Len(returns)], c)
       IN NumAdd(SumOfSquares(SubSeq(returns, 1, Len(returns) - 1), c), NumMul(dev, dev))

ReturnsOf(returnSeries) == [i \in DOMAIN returnSeries |-> returnSeries[i].return]

\* years = max((last - first) / (365.25 days), 1 / 365.25)
YearSpan(returnSeries) ==
  LET first == DayNumber(returnSeries[1].date)
      last == DayNumber(returnSeries[Len(returnSeries)].date)
  IN MathMax(Q(4 * (last - first), 1461), Q(4, 1461))

\* the sample variance of the returns (0 for a single return)
Variance(returns) ==
  LET n == Len(returns)
      avg == NumDiv(SumOf(returns), N(n))
  IN IF n > 1 THEN NumDiv(SumOfSquares(returns, avg), N(n - 1)) ELSE N(0)

\* returnSeries.filter(r => r.return < 0)
RECURSIVE Negatives(_)
Negatives(returns) ==
  IF returns = <<>> THEN <<>>
  ELSE (IF NumGt(N(0), Head(returns)) THEN <<Head(returns)>> ELSE <<>>)
       \o Negatives(Tail(returns))

\* the population variance of the negative returns around 0
DownsideVar(returns) ==
  LET neg == Negatives(returns)
  IN IF Len(neg) > 0 THEN NumDiv(SumOfSquares(neg, N(0)), N(Len(neg))) ELSE N(0)

\* cum = [1, 1 + r1, (1 + r1)(1 + r2), ...]
CumulativeCurve(returns) == [i \in 1..(Len(returns) + 1) |-> Compound(SubSeq(returns, 1, i - 1))]

\* variant: the drawdown is measured from the starting level, not from the peak
RECURSIVE MaxDrawdownFromStart(_, _, _, _)
MaxDrawdownFromStart(cum, i, peak, maxDrawdown) ==
  IF i > Len(cum) THEN maxDrawdown
  ELSE LET dd == NumSub(N(1), cum[i])
       IN MaxDrawdownFromStart(cum, i + 1, peak,
                               IF NumGt(dd, maxDrawdown) THEN dd ELSE maxDrawdown)

\* variant: the drawdown is taken relative to the value, not to the peak
RECURSIVE MaxDrawdownOverValue(_, _, _, _)
MaxDrawdownOverValue(cum, i, peak, maxDrawdown) ==
  IF i > Len(cum) THEN maxDrawdown
  ELSE LET newPeak == IF NumGt(cum[i], peak) THEN cum[i] ELSE peak
           dd == IF NumGt(cum[i], N(0)) THEN NumDiv(NumSub(newPeak, cum[i]), cum[i]) ELSE N(0)
       IN MaxDrawdownOverValue(cum, i + 1, newPeak,
                               IF NumGt(dd, maxDrawdown) THEN dd ELSE maxDrawdown)

\* the max drawdown loop of calculateMetrics, from index i with the peak and the
\* maximum so far
RECURSIVE MaxDrawdownLoop(_, _, _, _)
MaxDrawdownLoop(cum, i, peak, maxDrawdown) ==
  IF i > Len(cum) THEN maxDrawdown
  ELSE LET newPeak == IF NumGt(cum[i], peak) THEN cum[i] ELSE peak
           dd == IF NumGt(newPeak, N(0)) THEN NumDiv(NumSub(newPeak, cum[i]), newPeak) ELSE N(0)
       IN MaxDrawdownLoop(cum, i + 1, newPeak,
                          IF NumGt(dd, maxDrawdown) THEN dd ELSE maxDrawdown)

calculateMetrics(returnSeries) ==
  IF Len(returnSeries) = 0 THEN NullMetrics
  ELSE LET n == Len(returnSeries)
           returns == ReturnsOf(returnSeries)
           cumulativeReturn == NumSub(Compound(returns), N(1))
           years == YearSpan(returnSeries)
           annualizedReturn == PowMinusOne(NumAdd(N(1), cumulativeReturn), years)
           vol == MathSqrt(Variance(returns))
           periodsPerYear == NumDiv(N(n), years)
           scale == MathSqrt(MathMax(periodsPerYear, N(1)))
           annualizedVolatility == TimesRoot(vol, scale)
           cum == CumulativeCurve(returns)
           annualizedDownside == TimesRoot(MathSqrt(DownsideVar(returns)), scale)
       IN [cumulativeReturn |-> cumulativeReturn,
           annualizedReturn |-> annualizedReturn,
           annualizedVolatility |-> annualizedVolatility,
           sharpeRatio |-> IF Positive(annualizedVolatility)
                           THEN OverRoot(annualizedReturn, annualizedVolatility) ELSE NULL,
           maxDrawdown |-> MaxDrawdownLoop(cum, 2, cum[1], N(0)),
           sortinoRatio |-> IF Positive(annualizedDownside)
                            THEN OverRoot(annualizedReturn, annualizedDownside) ELSE NULL]

\* variant: the curve shows the level cum * 100, not the growth
buildEquityDataLevel(returnSeries) ==
  [i \in DOMAIN returnSeries |->
     [date |-> returnSeries[i].date,
      value |-> NumMul(Compound(SubSeq(ReturnsOf(returnSeries), 1, i)), N(100))]]

\* the equity curve in percent growth: (cum - 1) * 100 after each return
buildEquityData(returnSeries) ==
  [i \in DOMAIN returnSeries |->
     [date |-> returnSeries[i].date,
      value |-> NumMul(NumSub(Compound(SubSeq(ReturnsOf(returnSeries), 1, i)), N(1)), N(100))]]

\* the loop of buildDrawdownData from return i with the peak so far
RECURSIVE DrawdownLoop(_, _, _, _)
DrawdownLoop(returnSeries, cum, i, peak) ==
  IF i > Len(returnSeries) THEN <<>>
  ELSE LET v == cum[i + 1]
           newPeak == IF NumGt(v, peak) THEN v ELSE peak
           dd == IF NumGt(newPeak, N(0))
                 THEN NumMul(NumDiv(NumSub(newPeak, v), newPeak), N(100)) ELSE N(0)
       IN <<[date |-> returnSeries[i].date, value |-> NumNeg(dd)]>>
          \o DrawdownLoop(returnSeries, cum, i + 1, newPeak)

buildDrawdownData(returnSeries) ==
  LET cum == CumulativeCurve(ReturnsOf(returnSeries))
  IN DrawdownLoop(returnSeries, cum, 1, cum[1])

\* Math.min(...pcts) and Math.max(...pcts) of a non-empty list
RECURSIVE MinOf(_)
MinOf(list) ==
  IF Len(list) = 1 THEN list[1] ELSE MathMin(Head(list), MinOf(Tail(list)))

RECURSIVE MaxOf(_)
MaxOf(list) ==
  IF Len(list) = 1 THEN list[1] ELSE MathMax(Head(list), MaxOf(Tail(list)))

\* x.toFixed(1) as a number: x rounded to one decimal, halves away from zero
\* ("NaN" for NaN)
ToFixed1(x) ==
  IF x.k # "num" THEN x
  ELSE LET tenths == Floor(NumAdd(NumMul(Q(Abs(x.n), x.d), N(10)), Q(1, 2)))
       IN Q(Sign(x.n) * tenths, 10)

NumBuckets == 12

\* the elements of a set of numbers in ascending order
RECURSIVE Ascending(_)
Ascending(set) ==
  IF set = {} THEN <<>>
  ELSE LET low == CHOOSE x \in set : \A y \in set : ~GtN(x, y)
       IN <<low>> \o Ascending(set \ {low})

\* the buckets are keyed by the label low.toFixed(1); labels that coincide share
\* a bucket ("-0.0" and "0.0" are not told apart). A NaN return makes min, the
\* bucket index and every label NaN.
buildHistogramData(returnSeries) ==
  IF Len(returnSeries) = 0 THEN <<>>
  ELSE LET pcts == [i \in DOMAIN returnSeries |-> NumMul(returnSeries[i].return, N(100))]
           min == MinOf(pcts)
           max == MaxOf(pcts)
           span == MathMax(NumSub(max, min), Q(1, 2))
           step == OrElse(NumDiv(span, N(NumBuckets)), Q(1, 2))
           Label(i) == ToFixed1(NumAdd(min, NumMul(N(i), step)))
           BucketOf(p) ==
             IF NumDiv(NumSub(p, min), step).k # "num" THEN 0
             ELSE LET i == Floor(NumDiv(NumSub(p, min), step))
                  IN IF i > NumBuckets - 1 THEN NumBuckets - 1 ELSE IF i < 0 THEN 0 ELSE i
           labels == Ascending({Label(i) : i \in 0..(NumBuckets - 1)})
       IN [b \in DOMAIN labels |->
             [label |-> labels[b],
              count |-> Cardinality({i \in DOMAIN pcts : Label(BucketOf(pcts[i])) = labels[b]})]]

\* the returns of the series dated in year y (and month m), in order
RECURSIVE ReturnsIn(_, _, _)
ReturnsIn(returnSeries, y, m) ==
  IF returnSeries = <<>> THEN <<>>
  ELSE (IF Head(returnSeries).date.y = y /\ Head(returnSeries).date.m = m
        THEN <<Head(returnSeries).return>> ELSE <<>>)
       \o ReturnsIn(Tail(returnSeries), y, m)

\* a month's return: the compounded returns of its trades, or null without any
MonthlyReturn(returnSeries, y, m) ==
  IF ReturnsIn(returnSeries, y, m) = <<>> THEN NULL
  ELSE NumSub(Compound(ReturnsIn(returnSeries, y, m)), N(1))

\* yRet: the compounded monthly returns of year y
RECURSIVE YearGrowth(_, _, _)
YearGrowth(returnSeries, y, m) ==
  IF m = 0 THEN N(1)
  ELSE NumMul(YearGrowth(returnSeries, y, m - 1),
              IF MonthlyReturn(returnSeries, y, m) = NULL THEN N(1)
              ELSE NumAdd(N(1), MonthlyReturn(returnSeries, y, m)))

\* itd after the first n years of the list
RECURSIVE InceptionToDate(_, _, _)
InceptionToDate(returnSeries, years, n) ==
  IF n = 0 THEN N(1)
  ELSE NumMul(InceptionToDate(returnSeries, years, n - 1),
              YearGrowth(returnSeries, years[n], 12))

\* the dates are read in UTC (getFullYear and getMonth of the local time zone
\* are not modelled)
buildMonthlyHeatmap(returnSeries) ==
  LET yearSet == {returnSeries[i].date.y : i \in DOMAIN returnSeries}
      years == [i \in 1..Cardinality(yearSet) |->
                  CHOOSE y \in yearSet : Cardinality({z \in yearSet : z < y}) = i - 1]
  IN [years |-> years,
      byYearMonth |->
        [i \in DOMAIN years |->
           [monthly |-> [m \in 1..12 |-> MonthlyReturn(returnSeries, years[i], m)],
            yearly |-> NumSub(YearGrowth(returnSeries, years[i], 12), N(1)),
            cumulativeITD |-> NumSub(InceptionToDate(returnSeries, years, i), N(1))]]]

\* what the component derives from its props (the useMemo chain)
Tearsheet(trades0, initialBalance0) ==
  LET built == buildReturnSeries(trades0, initialBalance0)
  IN [returnSeries |-> built.returnSeries,
      startBalance |-> built.startBalance,
      metrics |-> calculateMetrics(built.returnSeries),
      heatmap |-> buildMonthlyHeatmap(built.returnSeries),
      equityData |-> buildEquityData(built.returnSeries),
      drawdownData |-> buildDrawdownData(built.returnSeries),
      histogramData |-> buildHistogramData(built.returnSeries)]

----------------------------------------------------------------------------
(* State                                                                   *)

VARIABLES
  trades,             \* App: the trade list (useState), newest first
  balance,            \* App: the base account balance
  rValue,             \* App: dollars per 1R
  supabaseConnected,  \* App: whether a backend is configured
  db,                 \* backend: the rows of table trades, by id
  inflight,           \* handlers suspended at their await, with the backend's reply
  clock,              \* Date.now()
  nextKey,            \* number of trades opened so far
  ops,                \* number of user operations so far
  prices,             \* useUnrealizedPnL: last price of the traded symbol, or NULL
  form,               \* PositionSizer: the input fields
  calculations,       \* PositionSizer: the calculation effect's result
  closedTrades,       \* PerformanceTearsheet: the closedTrades prop
  initialBalance,     \* PerformanceTearsheet: the initialBalance prop
  tearsheet,          \* PerformanceTearsheet: what the component derives (useMemo)
  startup,            \* App: how far the mount effect and loadUserData have got
  settingsRow,        \* backend: the user's row of the settings table
  settingsCalls,      \* settingsApi calls in flight
  effectsDue,         \* App: the persist effects whose dependencies have changed
  liveSymbol,         \* useLivePrice: the symbol prop ("" for none)
  livePrice,          \* useLivePrice: the price state, with the symbol it was obtained for
  liveFetches,        \* useLivePrice: initial price fetches not yet settled, by symbol
  liveSockets,        \* useLivePrice: the sockets created and not closed
  wsRef,              \* useLivePrice: wsRef.current
  hookMounted,        \* useLivePrice: whether the component using the hook is mounted
  liveRuns            \* useLivePrice: number of runs of the effect with a symbol

vars ==
  <<trades, balance, rValue, supabaseConnected, db, inflight, clock, nextKey, ops,
    prices, form, calculations, closedTrades, initialBalance, tearsheet,
    startup, settingsRow, settingsCalls, effectsDue,
    liveSymbol, livePrice, liveFetches, liveSockets, wsRef, hookMounted, liveRuns>>

tearsheetVars == <<closedTrades, initialBalance, tearsheet>>

startupVars == <<startup, settingsRow, settingsCalls, effectsDue>>

livePriceVars ==
  <<liveSymbol, livePrice, liveFetches, liveSockets, wsRef, hookMounted, liveRuns>>

appVars ==
  <<trades, balance, rValue, supabaseConnected, db, inflight, clock, nextKey, ops, prices>>

formVars == <<form, calculations>>

----------------------------------------------------------------------------
(* Persistence mapping: lib/supabase.js                                    *)

\* JSON.stringify turns Infinity and NaN into null
Json(x) == IF x.k \in {"inf", "nan"} THEN NULL ELSE x

\* gen_random_uuid(): a fresh opaque id, here numbered by the trade's serial
Uuid(key) == <<"uuid", key>>

\* a locally assigned id: Date.now()
LocalId(now) == <<"ts", now>>

\* the row tradesApi.create inserts
CreateRow(trade) ==
  [key |-> trade.key, id |-> Uuid(trade.key), type |-> trade.type,
   open_price |-> Json(trade.openPrice), stop_loss |-> Json(trade.stopLoss),
   take_profit |-> Json(trade.takeProfit), leverage |-> Json(trade.leverage),
   position_size |-> Json(trade.positionSize), risk_amount |-> Json(trade.riskAmount),
   risk_multiple |-> Json(trade.riskMultiple),
   status |-> IF trade.status = "" THEN "open" ELSE trade.status,
   close_price |-> NULL, close_date |-> NULL, pnl_percent |-> NULL,
   pnl_dollar |-> NULL, r_result |-> NULL, fee |-> N(0), notes |-> ""]

\* the NOT NULL columns of table trades
RowAccepted(row) ==
  /\ row.open_price # NULL /\ row.stop_loss # NULL
  /\ row.position_size # NULL /\ row.risk_amount # NULL

\* the update tradesApi.closeTrade applies to a row
CloseRow(row, h) ==
  [row EXCEPT !.close_price = Json(h.closePrice), !.close_date = h.closeDate,
              !.status = "closed", !.pnl_percent = Json(h.pnlPercent),
              !.pnl_dollar = Json(h.pnlDollar), !.r_result = Json(h.rResult),
              !.notes = h.comment]

\* value ? parseFloat(value) : null
ParseOrNull(x) == IF Truthy(x) THEN parseFloat(x) ELSE NULL

dbToAppTrade(dbTrade) ==
  [key |-> dbTrade.key, id |-> dbTrade.id,
   type |-> IF dbTrade.type = "" THEN "long" ELSE dbTrade.type,
   openPrice |-> OrElse(parseFloat(dbTrade.open_price), N(0)),
   stopLoss |-> OrElse(parseFloat(dbTrade.stop_loss), N(0)),
   takeProfit |-> ParseOrNull(dbTrade.take_profit),
   leverage |-> OrElse(parseFloat(dbTrade.leverage), N(1)),
   positionSize |-> OrElse(parseFloat(dbTrade.position_size), N(0)),
   riskAmount |-> OrElse(parseFloat(dbTrade.risk_amount), N(0)),
   riskMultiple |-> OrElse(parseFloat(dbTrade.risk_multiple), N(1)),
   closePrice |-> ParseOrNull(dbTrade.close_price),
   closeDate |-> IF Truthy(dbTrade.close_date) THEN dbTrade.close_date ELSE NULL,
   status |-> IF dbTrade.status = "" THEN "open" ELSE dbTrade.status,
   pnlPercent |-> ParseOrNull(dbTrade.pnl_percent),
   pnlDollar |-> ParseOrNull(dbTrade.pnl_dollar),
   rResult |-> ParseOrNull(dbTrade.r_result),
   comment |-> dbTrade.notes,
   fee |-> NULL]

----------------------------------------------------------------------------
(* Trade lifecycle: App.jsx                                                *)

\* variant: the trade stores the unit risk, not the risk scaled by the multiple
NewTradeObjectUnitRisk(f, calc, now, key) ==
  [key |-> key, id |-> LocalId(now), type |-> f.tradeType,
   openPrice |-> parseFloat(f.openPrice), stopLoss |-> parseFloat(f.stopLoss),
   takeProfit |-> OrElse(parseFloat(f.takeProfit), NULL),
   leverage |-> f.leverage, positionSize |-> calc.positionSize,
   riskAmount |-> NumDiv(calc.riskAmount, f.riskMultiple), riskMultiple |-> f.riskMultiple,
   closePrice |-> NULL, closeDate |-> NULL, status |-> "open",
   pnlPercent |-> NULL, pnlDollar |-> NULL, rResult |-> NULL,
   comment |-> "", fee |-> NULL]

\* the trade object PositionSizer.handleOpenTrade builds from the form
NewTradeObject(f, calc, now, key) ==
  [key |-> key, id |-> LocalId(now), type |-> f.tradeType,
   openPrice |-> parseFloat(f.openPrice), stopLoss |-> parseFloat(f.stopLoss),
   takeProfit |-> OrElse(parseFloat(f.takeProfit), NULL),
   leverage |-> f.leverage, positionSize |-> calc.positionSize,
   riskAmount |-> calc.riskAmount, riskMultiple |-> f.riskMultiple,
   closePrice |-> NULL, closeDate |-> NULL, status |-> "open",
   pnlPercent |-> NULL, pnlDollar |-> NULL, rResult |-> NULL,
   comment |-> "", fee |-> NULL]

\* variant: the move is not inverted for a short trade
PnlPercentLongOnly(trade, closePrice) ==
  NumMul(NumDiv(NumSub(closePrice, trade.openPrice), trade.openPrice), N(100))

PnlPercent(trade, closePrice) ==
  IF trade.type = "long"
  THEN NumMul(NumDiv(NumSub(closePrice, trade.openPrice), trade.openPrice), N(100))
  ELSE NumMul(NumDiv(NumSub(trade.openPrice, closePrice), trade.openPrice), N(100))

\* variant: the P&L is taken on the leveraged size
PnlDollarLeveraged(trade, closePrice) ==
  NumMul(NumMul(trade.positionSize, trade.leverage),
         NumDiv(PnlPercent(trade, closePrice), N(100)))

PnlDollar(trade, closePrice) ==
  NumMul(trade.positionSize, NumDiv(PnlPercent(trade, closePrice), N(100)))

\* variant: the result is the P&L over the risk amount, without the multiple
RResultPerRiskAmount(trade, closePrice) ==
  NumDiv(PnlDollar(trade, closePrice), trade.riskAmount)

RResult(trade, closePrice) ==
  NumMul(NumDiv(PnlDollar(trade, closePrice), trade.riskAmount), trade.riskMultiple)

\* variant: without a match the first trade of the list is taken
FindOrFirst(list, tradeId) ==
  IF \E i \in DOMAIN list : list[i].id = tradeId
  THEN list[CHOOSE i \in DOMAIN list :
              list[i].id = tradeId /\ \A j \in 1..(i - 1) : list[j].id # tradeId]
  ELSE IF list = <<>> THEN NULL ELSE list[1]

\* trades.find(t => t.id === tradeId): the first match, or NULL
RECURSIVE Find(_, _)
Find(list, tradeId) ==
  IF list = <<>> THEN NULL
  ELSE IF Head(list).id = tradeId THEN Head(list) ELSE Find(Tail(list), tradeId)

\* the values handleCloseTrade computes before its await
CloseRequest(trade, tradeId, closePrice, comment, now) ==
  [op |-> "close", tradeId |-> tradeId, closePrice |-> closePrice,
   closeDate |-> Str(N(now)), pnlPercent |-> PnlPercent(trade, closePrice),
   pnlDollar |-> PnlDollar(trade, closePrice), rResult |-> RResult(trade, closePrice),
   comment |-> comment]

\* variant: the closed trade is rebuilt from the closing fields alone, without
\* spreading the previous trade
updateTradeLocallyNoSpread(prev, h) ==
  [i \in DOMAIN prev |->
     IF prev[i].id # h.tradeId THEN prev[i]
     ELSE [prev[i] EXCEPT !.closePrice = h.closePrice, !.closeDate = h.closeDate,
                          !.status = "closed", !.pnlPercent = h.pnlPercent,
                          !.pnlDollar = h.pnlDollar, !.rResult = h.rResult,
                          !.comment = h.comment, !.openPrice = NULL,
                          !.stopLoss = NULL, !.positionSize = NULL,
                          !.riskAmount = NULL]]

\* updateTradeLocally: prev.map(t => t.id !== tradeId ? t : {...t, closing fields})
updateTradeLocally(prev, h) ==
  [i \in DOMAIN prev |->
     IF prev[i].id # h.tradeId THEN prev[i]
     ELSE [prev[i] EXCEPT !.closePrice = h.closePrice, !.closeDate = h.closeDate,
                          !.status = "closed", !.pnlPercent = h.pnlPercent,
                          !.pnlDollar = h.pnlDollar, !.rResult = h.rResult,
                          !.comment = h.comment]]

\* prev.map(t => t.id === tradeId ? updatedTrade : t)
ReplaceTrade(prev, tradeId, updatedTrade) ==
  [i \in DOMAIN prev |-> IF prev[i].id = tradeId THEN updatedTrade ELSE prev[i]]

\* variant: setBalance(balance + pnlDollar) with the balance the handler's
\* closure captured when the app was rendered first
AddPnlStale(prev, pnlDollar) == NumAdd(N(DefaultBalance), pnlDollar)

\* setBalance(prev => prev + pnlDollar)
AddPnl(prev, pnlDollar) == NumAdd(prev, pnlDollar)

\* prev.filter(t => t.id !== tradeId)
RECURSIVE RemoveTrade(_, _)
RemoveTrade(prev, tradeId) ==
  IF prev = <<>> THEN <<>>
  ELSE IF Head(prev).id = tradeId THEN RemoveTrade(Tail(prev), tradeId)
       ELSE <<Head(prev)>> \o RemoveTrade(Tail(prev), tradeId)

\* prev.map(t => t.id === tradeId ? {...t, ...updates} : t), updates = {fee}
MergeUpdates(prev, tradeId, updates) ==
  [i \in DOMAIN prev |->
     IF prev[i].id = tradeId THEN [prev[i] EXCEPT !.fee = updates.fee] ELSE prev[i]]

----------------------------------------------------------------------------
(* Inputs                                                                  *)

PriceTexts == {Str(N(p)) : p \in 1..MaxPrice}

PriceValues == {N(p) : p \in 1..MaxPrice}

\* what the user has typed into the form when pressing Open Trade
OrderForms ==
  [tradeType : {"long"}, openPrice : PriceTexts, stopLoss : PriceTexts,
   takeProfit : {EMPTY}, leverage : {N(1)}, riskMultiple : {N(1)}]

\* the same with the risk and leverage buttons used
SizingForms ==
  [tradeType : {"long", "short"}, openPrice : PriceTexts, stopLoss : PriceTexts,
   takeProfit : {EMPTY}, leverage : {N(1), N(2)}, riskMultiple : {Q(1, 2), N(1), Q(3, 2)}]

Comments == {""}

FeeValues == {N(1)}

RInputs == {N(DefaultRValue), N(2 * DefaultRValue)}

BalanceInputs == {N(DefaultBalance)}

\* handleOpenTrade's reset of the form (trade type and leverage stay)
ResetForm(f) ==
  [f EXCEPT !.openPrice = EMPTY, !.stopLoss = EMPTY, !.takeProfit = EMPTY,
            !.riskMultiple = N(1)]

DefaultForm ==
  [tradeType |-> "long", openPrice |-> EMPTY, stopLoss |-> EMPTY,
   takeProfit |-> EMPTY, leverage |-> N(1), riskMultiple |-> N(1)]

----------------------------------------------------------------------------
(* Requests in flight                                                      *)

Request(op, tradeId, trade, c, fee) ==
  [op |-> op, tradeId |-> tradeId, trade |-> trade,
   closePrice |-> c.closePrice, closeDate |-> c.closeDate,
   pnlPercent |-> c.pnlPercent, pnlDollar |-> c.pnlDollar, rResult |-> c.rResult,
   comment |-> c.comment, fee |-> fee, reply |-> "none", data |-> NULL]

NoClose ==
  [closePrice |-> NULL, closeDate |-> NULL, pnlPercent |-> NULL, pnlDollar |-> NULL,
   rResult |-> NULL, comment |-> ""]

Drop(seq, i) == SubSeq(seq, 1, i - 1) \o SubSeq(seq, i + 1, Len(seq))

Ids(list) == {list[i].id : i \in DOMAIN list}

OpenIds(list) == {list[i].id : i \in {j \in DOMAIN list : list[j].status = "open"}}

PutRow(rows, row) == [id \in DOMAIN rows \cup {row.id} |-> IF id = row.id THEN row ELSE rows[id]]

DeleteRow(rows, id) == [j \in DOMAIN rows \ {id} |-> rows[j]]

----------------------------------------------------------------------------
(* Initial state: the app mounted, nobody has traded yet                   *)

\* what the backend's settings row holds before the app starts
StoredSettings == [balance |-> N(2 * DefaultBalance), r_value |-> N(2 * DefaultRValue)]

\* the app has started and loaded its settings; no settings call is in flight
StartupDone ==
  /\ startup = "loaded"
  /\ settingsRow = StoredSettings
  /\ settingsCalls = <<>>
  /\ effectsDue = {}

\* the hook is mounted without a symbol
LivePriceIdle ==
  /\ liveSymbol = ""
  /\ livePrice = NULL
  /\ liveFetches = {}
  /\ liveSockets = {}
  /\ wsRef = NULL
  /\ hookMounted = TRUE
  /\ liveRuns = 0

Init ==
  /\ trades = <<>>
  /\ balance = N(DefaultBalance)
  /\ rValue = N(DefaultRValue)
  /\ supabaseConnected \in BOOLEAN
  /\ db = [id \in {} |-> NULL]
  /\ inflight = <<>>
  /\ clock = 0
  /\ nextKey = 0
  /\ ops = 0
  /\ prices = NULL
  /\ form = DefaultForm
  /\ calculations = Calculate(DefaultForm, N(DefaultRValue))
  /\ closedTrades = <<>>
  /\ initialBalance = N(DefaultBalance)
  /\ tearsheet = Tearsheet(closedTrades, initialBalance)
  /\ StartupDone
  /\ LivePriceIdle

----------------------------------------------------------------------------
(* Actions of the app                                                      *)

\* time passes: Date.now() advances
Tick ==
  /\ clock < MaxClock
  /\ clock' = clock + 1
  /\ UNCHANGED <<trades, balance, rValue, supabaseConnected, db, inflight, nextKey, prices, ops>>
  /\ UNCHANGED formVars

\* PositionSizer.handleOpenTrade on the filled form f, then App.handleNewTrade up to
\* its await (or to its end, without a backend)
OpenTrade(f) ==
  /\ ops < MaxOps
  /\ ops' = ops + 1
  /\ nextKey < MaxTrades
  /\ Truthy(f.openPrice) /\ Truthy(f.stopLoss)
  /\ LET trade == NewTradeObject(f, Calculate(f, rValue), clock, nextKey + 1)
     IN IF supabaseConnected
        THEN /\ Len(inflight) < MaxInflight
             /\ inflight' = Append(inflight, Request("create", trade.id, trade, NoClose, NULL))
             /\ UNCHANGED trades
        ELSE /\ trades' = <<[trade EXCEPT !.id = LocalId(clock)]>> \o trades
             /\ UNCHANGED inflight
  /\ nextKey' = nextKey + 1
  /\ form' = ResetForm(f)
  /\ calculations' = Calculate(form', rValue)
  /\ UNCHANGED <<balance, rValue, supabaseConnected, db, clock, prices>>

\* variant: without a successful insert the trade is not kept
ResumeNewTradeNoFallback(i) ==
  /\ i \in DOMAIN inflight
  /\ inflight[i].op = "create" /\ inflight[i].reply # "none"
  /\ trades' = IF inflight[i].reply = "ok"
               THEN <<dbToAppTrade(inflight[i].data)>> \o trades
               ELSE trades
  /\ inflight' = Drop(inflight, i)
  /\ UNCHANGED <<balance, rValue, supabaseConnected, db, clock, nextKey, prices, ops>>
  /\ UNCHANGED formVars

\* handleNewTrade after its await
ResumeNewTrade(i) ==
  /\ i \in DOMAIN inflight
  /\ inflight[i].op = "create" /\ inflight[i].reply # "none"
  /\ LET h == inflight[i]
     IN trades' = IF h.reply = "ok"
                  THEN <<dbToAppTrade(h.data)>> \o trades
                  ELSE <<[h.trade EXCEPT !.id = LocalId(clock)]>> \o trades
  /\ inflight' = Drop(inflight, i)
  /\ UNCHANGED <<balance, rValue, supabaseConnected, db, clock, nextKey, prices, ops>>
  /\ UNCHANGED formVars

\* ActiveTrades / TradingJournal handleConfirmClose on a trade shown as open, then
\* App.handleCloseTrade up to its await (or to its end, without a backend)
CloseTrade(tradeId, closePrice, comment) ==
  /\ ops < MaxOps
  /\ ops' = ops + 1
  /\ tradeId \in OpenIds(trades)
  /\ LET trade == Find(trades, tradeId)
         h == Request("close", tradeId, NULL,
                      CloseRequest(trade, tradeId, closePrice, comment, clock), NULL)
     IN /\ trade # NULL
        /\ IF supabaseConnected
           THEN /\ Len(inflight) < MaxInflight
                /\ inflight' = Append(inflight, h)
                /\ UNCHANGED <<trades, balance>>
           ELSE /\ trades' = updateTradeLocally(trades, h)
                /\ balance' = AddPnl(balance, h.pnlDollar)
                /\ UNCHANGED inflight
  /\ UNCHANGED <<rValue, supabaseConnected, db, clock, nextKey, prices>>
  /\ UNCHANGED formVars

\* the ids the program has handed out so far
KnownIds == {LocalId(c) : c \in 0..clock} \cup {Uuid(k) : k \in 1..nextKey}

\* handleConfirmClose of a close dialog that was opened for a trade which has
\* left the list since (it was deleted): App.handleCloseTrade runs with an id
\* that trades.find does not find
StaleCloseTrade(tradeId, closePrice, comment) ==
  /\ ops < MaxOps
  /\ ops' = ops + 1
  /\ tradeId \in KnownIds \ Ids(trades)
  /\ LET trade == Find(trades, tradeId)
     IN IF trade = NULL
        THEN UNCHANGED <<trades, balance, inflight>>
        ELSE LET h == Request("close", tradeId, NULL,
                              CloseRequest(trade, tradeId, closePrice, comment, clock), NULL)
             IN IF supabaseConnected
                THEN /\ Len(inflight) < MaxInflight
                     /\ inflight' = Append(inflight, h)
                     /\ UNCHANGED <<trades, balance>>
                ELSE /\ trades' = updateTradeLocally(trades, h)
                     /\ balance' = AddPnl(balance, h.pnlDollar)
                     /\ UNCHANGED inflight
  /\ UNCHANGED <<rValue, supabaseConnected, db, clock, nextKey, prices>>
  /\ UNCHANGED formVars

\* handleCloseTrade after its await
ResumeCloseTrade(i) ==
  /\ i \in DOMAIN inflight
  /\ inflight[i].op = "close" /\ inflight[i].reply # "none"
  /\ LET h == inflight[i]
     IN /\ trades' = IF h.reply = "ok"
                     THEN ReplaceTrade(trades, h.tradeId, dbToAppTrade(h.data))
                     ELSE updateTradeLocally(trades, h)
        /\ balance' = AddPnl(balance, h.pnlDollar)
  /\ inflight' = Drop(inflight, i)
  /\ UNCHANGED <<rValue, supabaseConnected, db, clock, nextKey, prices, ops>>
  /\ UNCHANGED formVars

\* App.handleDeleteTrade up to its await (or to its end, without a backend)
DeleteTrade(tradeId) ==
  /\ ops < MaxOps
  /\ ops' = ops + 1
  /\ tradeId \in Ids(trades)
  /\ IF supabaseConnected
     THEN /\ Len(inflight) < MaxInflight
          /\ inflight' = Append(inflight, Request("delete", tradeId, NULL, NoClose, NULL))
          /\ UNCHANGED trades
     ELSE /\ trades' = RemoveTrade(trades, tradeId)
          /\ UNCHANGED inflight
  /\ UNCHANGED <<balance, rValue, supabaseConnected, db, clock, nextKey, prices>>
  /\ UNCHANGED formVars

\* handleDeleteTrade after its await; a rejected promise ends the handler
ResumeDeleteTrade(i) ==
  /\ i \in DOMAIN inflight
  /\ inflight[i].op = "delete" /\ inflight[i].reply # "none"
  /\ trades' = IF inflight[i].reply = "throw" THEN trades
               ELSE RemoveTrade(trades, inflight[i].tradeId)
  /\ inflight' = Drop(inflight, i)
  /\ UNCHANGED <<balance, rValue, supabaseConnected, db, clock, nextKey, prices, ops>>
  /\ UNCHANGED formVars

\* App.handleUpdateTrade(tradeId, {fee}) up to its await (or to its end)
UpdateTrade(tradeId, fee) ==
  /\ ops < MaxOps
  /\ ops' = ops + 1
  /\ tradeId \in Ids(trades)
  /\ IF supabaseConnected
     THEN /\ Len(inflight) < MaxInflight
          /\ inflight' = Append(inflight, Request("update", tradeId, NULL, NoClose, fee))
          /\ UNCHANGED trades
     ELSE /\ trades' = MergeUpdates(trades, tradeId, [fee |-> fee])
          /\ UNCHANGED inflight
  /\ UNCHANGED <<balance, rValue, supabaseConnected, db, clock, nextKey, prices>>
  /\ UNCHANGED formVars

\* handleUpdateTrade after its await
ResumeUpdateTrade(i) ==
  /\ i \in DOMAIN inflight
  /\ inflight[i].op = "update" /\ inflight[i].reply # "none"
  /\ trades' = IF inflight[i].reply = "ok"
               THEN ReplaceTrade(trades, inflight[i].tradeId, dbToAppTrade(inflight[i].data))
               ELSE trades
  /\ inflight' = Drop(inflight, i)
  /\ UNCHANGED <<balance, rValue, supabaseConnected, db, clock, nextKey, prices, ops>>
  /\ UNCHANGED formVars

\* the backend serves request i: tradesApi.create / closeTrade / delete / update
BackendOk(i) ==
  /\ i \in DOMAIN inflight
  /\ inflight[i].reply = "none"
  /\ LET h == inflight[i]
         row == CASE h.op = "create" -> CreateRow(h.trade)
                  [] h.op = "close" /\ h.tradeId \in DOMAIN db -> CloseRow(db[h.tradeId], h)
                  [] h.op = "update" /\ h.tradeId \in DOMAIN db ->
                       [db[h.tradeId] EXCEPT !.fee = h.fee]
                  [] OTHER -> NULL
     IN /\ h.op = "create" => RowAccepted(row)
        /\ h.op \in {"close", "update"} => h.tradeId \in DOMAIN db
        /\ db' = IF h.op = "delete" THEN DeleteRow(db, h.tradeId) ELSE PutRow(db, row)
        /\ inflight' = [inflight EXCEPT ![i].reply = "ok", ![i].data = row]
  /\ UNCHANGED <<trades, balance, rValue, supabaseConnected, clock, nextKey, prices, ops>>
  /\ UNCHANGED formVars

\* the backend answers request i with { data: null, error }, or the call throws
BackendFails(i, how) ==
  /\ i \in DOMAIN inflight
  /\ inflight[i].reply = "none"
  /\ how \in {"error", "throw"}
  /\ inflight' = [inflight EXCEPT ![i].reply = how]
  /\ UNCHANGED <<trades, balance, rValue, supabaseConnected, db, clock, nextKey, prices, ops>>
  /\ UNCHANGED formVars

\* Header.handleRSubmit; the new rValue prop re-runs the calculation effect
HandleRSubmit(value) ==
  /\ ops < MaxOps
  /\ ops' = ops + 1
  /\ NumGt(value, N(0))
  /\ value # rValue
  /\ rValue' = value
  /\ calculations' = Calculate(form, value)
  /\ UNCHANGED <<trades, balance, supabaseConnected, db, inflight, clock, nextKey, prices, form>>

\* variant: the edit stores the displayed balance as the base balance
HandleBalanceSubmitAsBase(value) ==
  /\ ops < MaxOps
  /\ ops' = ops + 1
  /\ NumGe(value, N(0))
  /\ balance' = value
  /\ UNCHANGED <<trades, rValue, supabaseConnected, db, inflight, clock, nextKey, prices>>
  /\ UNCHANGED formVars

\* useUnrealizedPnL: the running total over the open trades
RECURSIVE TotalUnrealizedPnL(_, _)
TotalUnrealizedPnL(list, currentPrice) ==
  IF list = <<>> THEN N(0)
  ELSE LET rest == TotalUnrealizedPnL(SubSeq(list, 1, Len(list) - 1), currentPrice)
           trade == list[Len(list)]
       IN IF trade.status # "open" \/ ~Truthy(currentPrice) THEN rest
          ELSE NumAdd(rest, PnlDollar(trade, currentPrice))

\* Header.handleBalanceSubmit, then App.handleBalanceChange
HandleBalanceSubmit(value) ==
  /\ ops < MaxOps
  /\ ops' = ops + 1
  /\ NumGe(value, N(0))
  /\ balance' = NumSub(value, TotalUnrealizedPnL(trades, prices))
  /\ UNCHANGED <<trades, rValue, supabaseConnected, db, inflight, clock, nextKey, prices>>
  /\ UNCHANGED formVars

\* useUnrealizedPnL: a price arrives for the traded symbol
PriceUpdate(newPrice) ==
  /\ prices # newPrice
  /\ prices' = newPrice
  /\ UNCHANGED <<trades, balance, rValue, supabaseConnected, db, inflight, clock, nextKey, ops>>
  /\ UNCHANGED formVars

----------------------------------------------------------------------------
(* Actions of the position sizer form                                      *)

\* an input's onChange (setOpenPrice, setStopLoss, setTakeProfit) or a button's
\* onClick (setTradeType, setLeverage, setRiskMultiple); the new state re-runs
\* the calculation effect
SetField(name, value) ==
  /\ form[name] # value
  /\ form' = [form EXCEPT ![name] = value]
  /\ calculations' = Calculate(form', rValue)
  /\ UNCHANGED appVars

InputTexts == {EMPTY} \cup {Str(N(p)) : p \in 0..MaxInput}

\* the leverage and risk buttons pressed in the form-only specification
FormLeverages == {N(1), N(10)}

FormRisks == {Q(1, 2), N(1), N(2)}

----------------------------------------------------------------------------
(* Specifications                                                          *)

Backend ==
  \/ \E i \in 1..MaxInflight : BackendOk(i)
  \/ \E i \in 1..MaxInflight, how \in {"error", "throw"} : BackendFails(i, how)

\* the whole app
Next ==
  /\ \/ Tick
     \/ \E f \in OrderForms : OpenTrade(f)
     \/ \E i \in 1..MaxInflight : ResumeNewTrade(i)
     \/ \E id \in Ids(trades), p \in PriceValues, c \in Comments : CloseTrade(id, p, c)
     \/ \E i \in 1..MaxInflight : ResumeCloseTrade(i)
     \/ \E id \in Ids(trades) : DeleteTrade(id)
     \/ \E i \in 1..MaxInflight : ResumeDeleteTrade(i)
     \/ \E id \in Ids(trades), fee \in FeeValues : UpdateTrade(id, fee)
     \/ \E i \in 1..MaxInflight : ResumeUpdateTrade(i)
     \/ Backend
     \/ \E v \in RInputs : HandleRSubmit(v)
     \/ \E v \in BalanceInputs : HandleBalanceSubmit(v)
  /\ UNCHANGED <<tearsheetVars, startupVars, livePriceVars>>

Spec == Init /\ [][Next]_vars

\* the position sizer form alone: the user edits the fields and the R value
CalcNext ==
  /\ \/ \E v \in {"long", "short"} : SetField("tradeType", v)
     \/ \E v \in InputTexts : SetField("openPrice", v)
     \/ \E v \in InputTexts : SetField("stopLoss", v)
     \/ \E v \in InputTexts : SetField("takeProfit", v)
     \/ \E v \in FormLeverages : SetField("leverage", v)
     \/ \E v \in FormRisks : SetField("riskMultiple", v)
     \/ \E v \in RInputs : HandleRSubmit(v)
  /\ UNCHANGED <<tearsheetVars, startupVars, livePriceVars>>

CalcSpec == Init /\ [][CalcNext]_vars

\* trades are opened and closed, nothing else
NewCloseNext ==
  /\ \/ Tick
     \/ \E f \in OrderForms : OpenTrade(f)
     \/ \E i \in 1..MaxInflight : ResumeNewTrade(i)
     \/ \E id \in Ids(trades), p \in PriceValues, c \in Comments : CloseTrade(id, p, c)
     \/ \E i \in 1..MaxInflight : ResumeCloseTrade(i)
     \/ Backend
  /\ UNCHANGED <<tearsheetVars, startupVars, livePriceVars>>

NewCloseSpec == Init /\ [][NewCloseNext]_vars

\* a close request is pending for the trade
ClosePending(tradeId) ==
  \E i \in DOMAIN inflight : inflight[i].op = "close" /\ inflight[i].tradeId = tradeId

\* trades are opened and each is closed by one request, the requests overlapping
ConcNext ==
  /\ \/ Tick
     \/ \E f \in OrderForms : OpenTrade(f)
     \/ \E i \in 1..MaxInflight : ResumeNewTrade(i)
     \/ \E id \in Ids(trades), p \in PriceValues, c \in Comments :
           ~ClosePending(id) /\ CloseTrade(id, p, c)
     \/ \E i \in 1..MaxInflight : ResumeCloseTrade(i)
     \/ Backend
  /\ UNCHANGED <<tearsheetVars, startupVars, livePriceVars>>

ConcSpec == Init /\ [][ConcNext]_vars

\* the life of one trade, sized with any of the buttons
OneTradeNext ==
  /\ \/ Tick
     \/ \E f \in SizingForms : nextKey = 0 /\ OpenTrade(f)
     \/ \E i \in 1..MaxInflight : ResumeNewTrade(i)
     \/ \E id \in Ids(trades), p \in PriceValues, c \in Comments : CloseTrade(id, p, c)
     \/ \E i \in 1..MaxInflight : ResumeCloseTrade(i)
     \/ Backend
     \/ \E v \in RInputs : HandleRSubmit(v)
  /\ UNCHANGED <<tearsheetVars, startupVars, livePriceVars>>

OneTradeSpec == Init /\ [][OneTradeNext]_vars

\* trades are opened and deleted, and closes are confirmed for trades that
\* have left the list
StaleCloseNext ==
  /\ \/ Tick
     \/ \E f \in OrderForms : OpenTrade(f)
     \/ \E i \in 1..MaxInflight : ResumeNewTrade(i)
     \/ \E id \in Ids(trades) : DeleteTrade(id)
     \/ \E i \in 1..MaxInflight : ResumeDeleteTrade(i)
     \/ \E id \in KnownIds, p \in PriceValues, c \in Comments : StaleCloseTrade(id, p, c)
     \/ Backend
  /\ UNCHANGED <<tearsheetVars, startupVars, livePriceVars>>

StaleCloseSpec == Init /\ [][StaleCloseNext]_vars

\* what the user types into the header's balance field
DisplayedInputs == {N(0), N(3), N(DefaultBalance)}

\* trades are opened and closed in the local list while prices arrive and the
\* user edits the displayed balance
BalanceInit == Init /\ ~supabaseConnected

BalanceNext ==
  /\ \/ \E f \in OrderForms : OpenTrade(f)
     \/ \E id \in Ids(trades), p \in PriceValues, c \in Comments : CloseTrade(id, p, c)
     \/ \E p \in PriceValues : PriceUpdate(p)
     \/ \E v \in DisplayedInputs : HandleBalanceSubmit(v)
  /\ UNCHANGED <<tearsheetVars, startupVars, livePriceVars>>

BalanceSpec == BalanceInit /\ [][BalanceNext]_vars

\* the forms of the spec's concrete scenarios: long BTC 50000 / 49000 and short
\* ETH 3000 / 3060, with the risk buttons 0.5, 1 and 2
ScenarioForms ==
  [tradeType : {"long"}, openPrice : {Str(N(50000))}, stopLoss : {Str(N(49000))},
   takeProfit : {EMPTY}, leverage : {N(1)}, riskMultiple : {N(1)}]
  \cup [tradeType : {"short"}, openPrice : {Str(N(3000))}, stopLoss : {Str(N(3060))},
        takeProfit : {EMPTY}, leverage : {N(1), N(10)}, riskMultiple : {Q(1, 2), N(1), N(2)}]

ScenarioClosePrices == {N(51000), N(2940)}

ScenarioRValues == {N(DefaultRValue), N(2 * DefaultRValue), N(4 * DefaultRValue)}

\* one trade of a scenario is opened and closed, with R-value edits in between
ScenarioNext ==
  /\ \/ Tick
     \/ \E f \in ScenarioForms : nextKey = 0 /\ OpenTrade(f)
     \/ \E i \in 1..MaxInflight : ResumeNewTrade(i)
     \/ \E id \in Ids(trades), p \in ScenarioClosePrices, c \in Comments : CloseTrade(id, p, c)
     \/ \E i \in 1..MaxInflight : ResumeCloseTrade(i)
     \/ Backend
     \/ \E v \in ScenarioRValues : HandleRSubmit(v)
  /\ UNCHANGED <<tearsheetVars, startupVars, livePriceVars>>

ScenarioSpec == Init /\ [][ScenarioNext]_vars

----------------------------------------------------------------------------
(* Startup: the mount effect, loadUserData and the persist effects         *)

\* what useState reads from localStorage (or its default) at the first render
CachedBalances == {N(DefaultBalance), N(DefaultBalance + 500), StoredSettings.balance}

CachedRValues == {N(DefaultRValue), StoredSettings.r_value}

StartupInit ==
  /\ trades = <<>>
  /\ balance \in CachedBalances
  /\ rValue \in CachedRValues
  /\ supabaseConnected = FALSE
  /\ db = [id \in {} |-> NULL]
  /\ inflight = <<>>
  /\ clock = 0
  /\ nextKey = 0
  /\ ops = 0
  /\ prices = NULL
  /\ form = DefaultForm
  /\ calculations = Calculate(DefaultForm, rValue)
  /\ closedTrades = <<>>
  /\ initialBalance = balance
  /\ tearsheet = Tearsheet(closedTrades, initialBalance)
  /\ startup = "firstRender"
  /\ settingsRow = StoredSettings
  /\ settingsCalls = <<>>
  /\ effectsDue = {}
  /\ LivePriceIdle

SettingsCall(op, field, value) ==
  [op |-> op, field |-> field, value |-> value, stage |-> "sent", data |-> NULL]

startupFrame ==
  <<trades, db, inflight, clock, nextKey, ops, prices, form, tearsheetVars, livePriceVars>>

\* the effects of the first render with a backend configured: the persist
\* effects write localStorage only (supabaseConnected is still false), the auth
\* effect calls setSupabaseConnected(true) and asks for the session
MountEffects ==
  /\ startup = "firstRender"
  /\ startup' = "awaitingSession"
  /\ supabaseConnected' = TRUE
  /\ effectsDue' = {"rValue", "balance"}
  /\ UNCHANGED <<balance, rValue, calculations, settingsRow, settingsCalls, startupFrame>>

\* a persist effect runs because rValue, balance or supabaseConnected changed
RunPersistEffect(field) ==
  /\ field \in effectsDue
  /\ effectsDue' = effectsDue \ {field}
  /\ settingsCalls' =
       IF supabaseConnected
       THEN Append(settingsCalls,
                   SettingsCall("upsert", field, IF field = "balance" THEN balance ELSE rValue))
       ELSE settingsCalls
  /\ UNCHANGED <<balance, rValue, calculations, supabaseConnected, startup, settingsRow,
                 startupFrame>>

\* getSession resolves with a user: loadUserData runs up to its first await
SessionResolved ==
  /\ startup = "awaitingSession"
  /\ startup' = "loading"
  /\ settingsCalls' = Append(settingsCalls, SettingsCall("get", "", NULL))
  /\ UNCHANGED <<balance, rValue, calculations, supabaseConnected, settingsRow, effectsDue,
                 startupFrame>>

\* the backend serves one of the calls in flight: settingsApi.get reads the
\* row, settingsApi.upsert writes the field it carries
BackendSettings(i) ==
  /\ i \in DOMAIN settingsCalls
  /\ settingsCalls[i].stage = "sent"
  /\ IF settingsCalls[i].op = "get"
     THEN /\ settingsCalls' = [settingsCalls EXCEPT ![i].stage = "replied",
                                                   ![i].data = settingsRow]
          /\ UNCHANGED settingsRow
     ELSE /\ settingsCalls' = [settingsCalls EXCEPT ![i].stage = "replied"]
          /\ settingsRow' =
               IF settingsCalls[i].field = "balance"
               THEN [settingsRow EXCEPT !.balance = settingsCalls[i].value]
               ELSE [settingsRow EXCEPT !.r_value = settingsCalls[i].value]
  /\ UNCHANGED <<balance, rValue, calculations, supabaseConnected, startup, effectsDue,
                 startupFrame>>

\* loadUserData after settingsApi.get: the values read replace the state, and
\* the load ends (the trades load that follows finds no trades)
ResumeLoad(i) ==
  /\ i \in DOMAIN settingsCalls
  /\ settingsCalls[i].op = "get" /\ settingsCalls[i].stage = "replied"
  /\ startup = "loading"
  /\ LET settings == settingsCalls[i].data
     IN /\ rValue' = IF Truthy(settings.r_value) THEN settings.r_value ELSE rValue
        /\ balance' = IF settings.balance # NULL THEN settings.balance ELSE balance
  /\ calculations' = Calculate(form, rValue')
  /\ effectsDue' = effectsDue \cup (IF rValue' # rValue THEN {"rValue"} ELSE {})
                              \cup (IF balance' # balance THEN {"balance"} ELSE {})
  /\ settingsCalls' = Drop(settingsCalls, i)
  /\ startup' = "loaded"
  /\ UNCHANGED <<supabaseConnected, settingsRow, startupFrame>>

\* the promise of an upsert settles; nobody looks at its result
ResumeUpsert(i) ==
  /\ i \in DOMAIN settingsCalls
  /\ settingsCalls[i].op = "upsert" /\ settingsCalls[i].stage = "replied"
  /\ settingsCalls' = Drop(settingsCalls, i)
  /\ UNCHANGED <<balance, rValue, calculations, supabaseConnected, startup, settingsRow,
                 effectsDue, startupFrame>>

\* at most the two upserts of the mount, the get and the two upserts that
\* follow the load are in flight
MaxCalls == 5

StartupNext ==
  \/ MountEffects
  \/ \E field \in {"rValue", "balance"} : RunPersistEffect(field)
  \/ SessionResolved
  \/ \E i \in 1..MaxCalls : BackendSettings(i)
  \/ \E i \in 1..MaxCalls : ResumeLoad(i)
  \/ \E i \in 1..MaxCalls : ResumeUpsert(i)

StartupSpec == StartupInit /\ [][StartupNext]_vars

----------------------------------------------------------------------------
(* Live price of the position sizer: useLivePrice and createPriceWebSocket *)
(* A fetch and a socket carry the symbol they were started for and the run *)
(* of the effect that started them. A socket on which close() was called   *)
(* delivers no further message (its readyState is no longer OPEN).         *)

LiveSymbols == {"BTC", "ETH"}

MaxRuns == 3

\* a symbol prop for which !symbol holds
NoSymbol == ""

\* the price state, with the symbol the price was obtained for
PriceFor(symbol, price) == [symbol |-> symbol, price |-> price]

Started(symbol, run) == [symbol |-> symbol, run |-> run]

\* the cleanup returned by the effect (lines 60-65); the run for no symbol
\* returns none
SocketsAfterCleanup == IF liveSymbol # NoSymbol /\ wsRef # NULL THEN liveSockets \ {wsRef} ELSE liveSockets

RefAfterCleanup == IF liveSymbol # NoSymbol THEN NULL ELSE wsRef

liveFrame == <<appVars, formVars, tearsheetVars, startupVars>>

\* the symbol prop changes: the previous run's cleanup, then the effect
SetSymbol(symbol) ==
  /\ hookMounted
  /\ symbol # liveSymbol
  /\ liveSymbol' = symbol
  /\ IF symbol = NoSymbol
     THEN /\ livePrice' = NULL
          /\ liveSockets' = SocketsAfterCleanup
          /\ wsRef' = RefAfterCleanup
          /\ UNCHANGED <<liveFetches, liveRuns>>
     ELSE /\ liveRuns < MaxRuns
          /\ liveRuns' = liveRuns + 1
          /\ liveFetches' = liveFetches \cup {Started(symbol, liveRuns')}
          /\ liveSockets' =
               (SocketsAfterCleanup \ (IF RefAfterCleanup # NULL THEN {RefAfterCleanup} ELSE {}))
               \cup {Started(symbol, liveRuns')}
          /\ wsRef' = Started(symbol, liveRuns')
          /\ UNCHANGED livePrice
  /\ UNCHANGED hookMounted
  /\ UNCHANGED liveFrame

\* fetchCurrentPrice settles with a price, or with null; the state of an
\* unmounted component is not updated
FetchResolves(fetch, initialPrice) ==
  /\ fetch \in liveFetches
  /\ liveFetches' = liveFetches \ {fetch}
  /\ livePrice' = IF hookMounted /\ initialPrice # NULL
                  THEN PriceFor(fetch.symbol, initialPrice)
                  ELSE livePrice
  /\ UNCHANGED <<liveSymbol, liveSockets, wsRef, hookMounted, liveRuns>>
  /\ UNCHANGED liveFrame

\* fetchCurrentPrice rejects
FetchFails(fetch) ==
  /\ fetch \in liveFetches
  /\ liveFetches' = liveFetches \ {fetch}
  /\ UNCHANGED <<liveSymbol, livePrice, liveSockets, wsRef, hookMounted, liveRuns>>
  /\ UNCHANGED liveFrame

\* ws.onmessage of an open socket, with a price in data.c
SocketMessage(ws, newPrice) ==
  /\ ws \in liveSockets
  /\ livePrice' = PriceFor(ws.symbol, newPrice)
  /\ UNCHANGED <<liveSymbol, liveFetches, liveSockets, wsRef, hookMounted, liveRuns>>
  /\ UNCHANGED liveFrame

\* the component unmounts: the last run's cleanup
Unmount ==
  /\ hookMounted
  /\ hookMounted' = FALSE
  /\ liveSockets' = SocketsAfterCleanup
  /\ wsRef' = RefAfterCleanup
  /\ UNCHANGED <<liveSymbol, livePrice, liveFetches, liveRuns>>
  /\ UNCHANGED liveFrame

AllStarted == {Started(s, r) : s \in LiveSymbols, r \in 1..MaxRuns}

LivePriceNext ==
  \/ \E s \in LiveSymbols \cup {NoSymbol} : SetSymbol(s)
  \/ \E f \in AllStarted, p \in PriceValues \cup {NULL} : FetchResolves(f, p)
  \/ \E f \in AllStarted : FetchFails(f)
  \/ \E ws \in AllStarted, p \in PriceValues : SocketMessage(ws, p)
  \/ Unmount

\* the hook mounted with no symbol
LivePriceInit == Init /\ ~supabaseConnected

LivePriceSpec == LivePriceInit /\ [][LivePriceNext]_vars

----------------------------------------------------------------------------
(* The tearsheet over bounded inputs                                       *)

\* pnlDollar of a closed trade as the journal hands it over: null after a
\* database round trip of 0, infinite after the close of a trade whose position
\* size is infinite
PnlValues == {NULL, N(0), N(100), N(-100), Inf(1), Inf(-1)}

CloseDates == {NULL, Date(2024, 1, 15), Date(2025, 3, 1)}

ClosedTradeInputs == [closeDate : CloseDates, pnlDollar : PnlValues]

InitialBalances == {N(0), N(150), N(DefaultBalance)}

AnalyticsInit ==
  /\ trades = <<>>
  /\ balance = N(DefaultBalance)
  /\ rValue = N(DefaultRValue)
  /\ supabaseConnected = FALSE
  /\ db = [id \in {} |-> NULL]
  /\ inflight = <<>>
  /\ clock = 0
  /\ nextKey = 0
  /\ ops = 0
  /\ prices = NULL
  /\ form = DefaultForm
  /\ calculations = Calculate(DefaultForm, N(DefaultRValue))
  /\ closedTrades = <<>>
  /\ initialBalance \in InitialBalances
  /\ tearsheet = Tearsheet(closedTrades, initialBalance)
  /\ StartupDone
  /\ LivePriceIdle

\* the journal hands over one more closed trade (newest first) and the
\* component derives its data again
AddClosedTrade(t) ==
  /\ Len(closedTrades) < MaxSeries
  /\ closedTrades' = <<t>> \o closedTrades
  /\ tearsheet' = Tearsheet(closedTrades', initialBalance)
  /\ UNCHANGED <<appVars, formVars, initialBalance, startupVars, livePriceVars>>

AnalyticsNext == \E t \in ClosedTradeInputs : AddClosedTrade(t)

AnalyticsSpec == AnalyticsInit /\ [][AnalyticsNext]_vars

----------------------------------------------------------------------------
(* Properties                                                              *)

Present(x) == x # NULL

IsClosed(t) == t.status = "closed"

ClosingFields(t) == <<t.closePrice, t.closeDate, t.pnlPercent, t.pnlDollar, t.rResult>>

OpenSideFields(t) == <<t.openPrice, t.stopLoss, t.positionSize, t.riskAmount>>

DistinctIds(list) == \A i, j \in DOMAIN list : list[i].id = list[j].id => i = j

FiniteSizes(list) ==
  \A i \in DOMAIN list : IsFinite(list[i].positionSize) /\ NumGt(list[i].positionSize, N(0))

\* sum of the stored pnlDollar of the closed trades (null counts as 0)
RECURSIVE ClosedPnlSum(_)
ClosedPnlSum(list) ==
  IF list = <<>> THEN N(0)
  ELSE IF IsClosed(Head(list))
       THEN NumAdd(Head(list).pnlDollar, ClosedPnlSum(Tail(list)))
       ELSE ClosedPnlSum(Tail(list))

\* sum, over the closed trades, of the P&L of closing the trade at its closePrice
RECURSIVE ClosedPnlAtClosePrice(_)
ClosedPnlAtClosePrice(list) ==
  IF list = <<>> THEN N(0)
  ELSE IF IsClosed(Head(list))
       THEN NumAdd(PnlDollar(Head(list), Head(list).closePrice),
                   ClosedPnlAtClosePrice(Tail(list)))
       ELSE ClosedPnlAtClosePrice(Tail(list))

\* C1: a close request that reaches a trade whose status is already 'closed' is
\* rejected: the step that completes it changes neither the trade's closing
\* fields nor the balance.
C1_CloseOfClosedRejected ==
  [][\A i \in DOMAIN inflight :
       (/\ ResumeCloseTrade(i)
        /\ \E j \in DOMAIN trades :
             trades[j].id = inflight[i].tradeId /\ IsClosed(trades[j]))
       => /\ balance' = balance
          /\ \A j \in DOMAIN trades :
               (trades[j].id = inflight[i].tradeId /\ IsClosed(trades[j]))
               => ClosingFields(trades'[j]) = ClosingFields(trades[j])]_vars

\* C2: no trade's status ever goes from 'closed' back to 'open' (so it goes from
\* 'open' to 'closed' at most once).
C2_NoReopening ==
  [][\A j \in DOMAIN trades, k \in DOMAIN trades' :
       (trades[j].key = trades'[k].key /\ IsClosed(trades[j])) => IsClosed(trades'[k])]_vars

\* C3: once the new-trade and close-trade operations issued so far have completed,
\* the balance is the starting balance plus the pnlDollar of the closed trades
\* (stated for trade lists whose ids are pairwise distinct and whose position
\* sizes are finite and positive).
C3_BalanceIsStartPlusClosedPnl ==
  (inflight = <<>> /\ DistinctIds(trades) /\ FiniteSizes(trades))
  => balance = NumAdd(N(DefaultBalance), ClosedPnlSum(trades))

\* number of close requests still in flight
PendingCloses == Cardinality({i \in DOMAIN inflight : inflight[i].op = "close"})

ClosedCount(list) == Cardinality({i \in DOMAIN list : IsClosed(list[i])})

\* C4: when close requests for different trades overlap, no balance update is
\* lost and every requested close takes effect: with pairwise distinct ids, the
\* balance is the starting balance plus the P&L of each closed trade at its close
\* price, and there are as many closed trades as completed close requests.
C4_ConcurrentClosesBothApply ==
  DistinctIds(trades)
  => /\ balance = NumAdd(N(DefaultBalance), ClosedPnlAtClosePrice(trades))
     /\ ClosedCount(trades) = (ops - nextKey) - PendingCloses

\* one trade has been closed while the close request of another trade, issued
\* while the first was still awaited or before, is answered and about to resume
C4_Witness ==
  /\ DistinctIds(trades)
  /\ \E j \in DOMAIN trades, i \in DOMAIN inflight :
       /\ IsClosed(trades[j])
       /\ NumGt(N(0), trades[j].pnlDollar)
       /\ inflight[i].op = "close"
       /\ inflight[i].reply # "none"
       /\ inflight[i].tradeId # trades[j].id
       /\ ~(inflight[i].pnlDollar = N(0))

\* C5: a trade is closed exactly when its closePrice, closeDate, pnlPercent,
\* pnlDollar and rResult are all non-null (stated for trades whose position size
\* is finite and positive).
C5_ClosedIffClosingFields ==
  FiniteSizes(trades)
  => \A i \in DOMAIN trades :
       IsClosed(trades[i]) <=>
         /\ Present(trades[i].closePrice)
         /\ Present(trades[i].closeDate)
         /\ Present(trades[i].pnlPercent)
         /\ Present(trades[i].pnlDollar)
         /\ Present(trades[i].rResult)

ValidTrade(f) ==
  LET open == parseFloat(f.openPrice)
      sl == parseFloat(f.stopLoss)
      tp == parseFloat(f.takeProfit)
  IN /\ IsFinite(open) /\ IsFinite(sl) /\ IsFinite(tp)
     /\ NumGt(sl, N(0)) /\ NumGt(open, N(0)) /\ NumGt(tp, N(0))
     /\ IF f.tradeType = "long"
        THEN NumGt(open, sl) /\ NumGt(tp, open)
        ELSE NumGt(sl, open) /\ NumGt(open, tp)

\* C7: for a valid trade with positive rValue and riskMultiple the calculator gives
\* riskRewardRatio > 0 and positionSize * stopLossPercent / 100 = riskAmount
\* = rValue * riskMultiple.
C7_ValidTradeSizing ==
  (ValidTrade(form) /\ NumGt(rValue, N(0)) /\ NumGt(form.riskMultiple, N(0)))
  => /\ NumGt(calculations.riskRewardRatio, N(0))
     /\ NumMul(calculations.positionSize, NumDiv(calculations.stopLossPercent, N(100)))
          = calculations.riskAmount
     /\ calculations.riskAmount = NumMul(rValue, form.riskMultiple)

\* a valid short trade sized with leverage and a risk multiple other than 1
C7_Witness ==
  /\ ValidTrade(form)
  /\ form.tradeType = "short"
  /\ form.leverage # N(1)
  /\ form.riskMultiple # N(1)
  /\ NumGt(calculations.positionSize, N(0))

MissingInput(f, r) == f.openPrice = EMPTY \/ f.stopLoss = EMPTY \/ ~Truthy(r)

PositivePrices(f) ==
  /\ f.openPrice # EMPTY => NumGt(parseFloat(f.openPrice), N(0))
  /\ f.stopLoss # EMPTY => NumGt(parseFloat(f.stopLoss), N(0))

\* C8: the calculator's positionSize is never negative or infinite; when the stop
\* distance computed from the inputs is <= 0 all six outputs are 0, and when a
\* required input is missing the outputs are 0 (stated here for positive prices,
\* and, with a missing input, for the five outputs other than riskAmount).
C8_NoSizeWithoutStopDistance ==
  PositivePrices(form)
  => /\ IsFinite(calculations.positionSize)
     /\ NumGe(calculations.positionSize, N(0))
     /\ MissingInput(form, rValue)
          => [calculations EXCEPT !.riskAmount = N(0)] = ZeroCalculations
     /\ (/\ ~MissingInput(form, rValue)
         /\ NumGe(N(0), StopLossPercent(form.tradeType, parseFloat(form.openPrice),
                                        parseFloat(form.stopLoss))))
          => calculations = ZeroCalculations

C10_StopOutIsMinusOneR ==
  \A i \in DOMAIN trades :
    (/\ IsClosed(trades[i])
     /\ trades[i].type = "long"
     /\ NumGt(trades[i].openPrice, trades[i].stopLoss)
     /\ trades[i].closePrice = trades[i].stopLoss)
    => /\ trades[i].pnlDollar = NumNeg(trades[i].riskAmount)
       /\ trades[i].rResult = NumNeg(trades[i].riskMultiple)

\* a long trade opened at a risk multiple other than 1 and stopped out
C10_Witness ==
  \E i \in DOMAIN trades :
    /\ IsClosed(trades[i])
    /\ trades[i].type = "long"
    /\ NumGt(trades[i].openPrice, trades[i].stopLoss)
    /\ trades[i].closePrice = trades[i].stopLoss
    /\ trades[i].riskMultiple # N(1)
    /\ trades[i].leverage # N(1)

\* C11: a step that closes an open trade at a closePrice equal to its openPrice
\* leaves the trade with pnlPercent = 0, pnlDollar = 0 and rResult = 0 and leaves
\* the balance unchanged (stated for lists with pairwise distinct ids and finite
\* positive position sizes).
C11_CloseAtOpenPriceIsFlat ==
  [][\A j \in DOMAIN trades, k \in DOMAIN trades' :
       (/\ DistinctIds(trades) /\ FiniteSizes(trades)
        /\ trades[j].key = trades'[k].key
        /\ ~IsClosed(trades[j]) /\ IsClosed(trades'[k])
        /\ trades'[k].closePrice = trades[j].openPrice)
       => /\ trades'[k].pnlPercent = N(0)
          /\ trades'[k].pnlDollar = N(0)
          /\ trades'[k].rResult = N(0)
          /\ balance' = balance]_vars

\* the closing values handleCloseTrade has computed: those of the close requests
\* awaiting the backend and, without a backend, those of the closed trades
ComputedCloses ==
  {<<inflight[i], Find(trades, inflight[i].tradeId)>> :
      i \in {n \in DOMAIN inflight : inflight[n].op = "close"}}
  \cup {<<trades[j], trades[j]>> :
      j \in {n \in DOMAIN trades : ~supabaseConnected /\ IsClosed(trades[n])}}

\* C12 (as claimed): when a step closes a trade, the rResult stored with it is
\* its pnlDollar divided by the R value configured at that step (stated for
\* finite positive position sizes and a non-null stored rResult).
C12_RResultIsPnlOverCurrentR ==
  [][\A j \in DOMAIN trades, k \in DOMAIN trades' :
       (/\ FiniteSizes(trades)
        /\ trades[j].key = trades'[k].key
        /\ ~IsClosed(trades[j]) /\ IsClosed(trades'[k])
        /\ Present(trades'[k].rResult))
       => trades'[k].rResult = NumDiv(trades'[k].pnlDollar, rValue)]_vars

\* C12 (amended): the rResult handleCloseTrade computes is the pnlDollar divided
\* by riskAmount / riskMultiple, the unit risk the trade was opened with.
C12_RResultIsPnlOverUnitRiskAtOpen ==
  \A c \in ComputedCloses :
    c[2] # NULL
    => c[1].rResult = NumDiv(c[1].pnlDollar, NumDiv(c[2].riskAmount, c[2].riskMultiple))

\* a close computed for a trade opened at a risk multiple other than 1, after
\* the R value was edited
C12_Witness ==
  \E c \in ComputedCloses :
    /\ c[2] # NULL
    /\ c[2].riskMultiple # N(1)
    /\ IsFinite(c[1].rResult) /\ c[1].rResult # N(0)
    /\ c[2].riskAmount # NumMul(c[2].riskMultiple, rValue)

\* the trade objects of the program: the listed ones and the ones handed to a
\* create request that has not resumed
TradeObjects ==
  {trades[j] : j \in DOMAIN trades}
  \cup {inflight[i].trade : i \in {n \in DOMAIN inflight : inflight[n].op = "create"}}

\* C13 (as claimed): every listed trade has riskAmount = riskMultiple * the R
\* value configured now.
C13_RiskAmountTracksR ==
  \A j \in DOMAIN trades : trades[j].riskAmount = NumMul(trades[j].riskMultiple, rValue)

\* C13 (amended): a trade is created with riskAmount = riskMultiple * the R value
\* configured at that moment, and no later step (an R-value edit included)
\* changes its riskAmount or riskMultiple.
C13_RiskAmountFixedAtOpen ==
  [][/\ \A t \in TradeObjects' :
          (nextKey' # nextKey /\ t.key = nextKey')
          => t.riskAmount = NumMul(t.riskMultiple, rValue)
     /\ \A t \in TradeObjects, u \in TradeObjects' :
          t.key = u.key
          => u.riskAmount = t.riskAmount /\ u.riskMultiple = t.riskMultiple]_vars

\* a listed trade opened at a risk multiple other than 1 whose riskAmount is no
\* longer riskMultiple * R, the R value having been edited since
C13_Witness ==
  \E j \in DOMAIN trades :
    /\ trades[j].riskMultiple # N(1)
    /\ trades[j].riskAmount # NumMul(trades[j].riskMultiple, rValue)

\* C14: the trades of the list have pairwise distinct ids.
C14_DistinctIds == DistinctIds(trades)

\* the open side of scenario 1 (long BTC) and of scenario 3 (short ETH)
IsScenario1(t) ==
  t.type = "long" /\ t.openPrice = N(50000) /\ t.stopLoss = N(49000) /\ t.riskMultiple = N(1)

IsScenario3(t) ==
  t.type = "short" /\ t.openPrice = N(3000) /\ t.stopLoss = N(3060) /\ t.riskAmount = N(200)

\* C22: a long trade opened with openPrice 50000, stopLoss 49000 and risk
\* multiple 1 while the R value is 100 stores riskAmount 100 and positionSize
\* 5000; the step that closes it at 51000 gives pnlDollar 100 and rResult 1 and
\* raises the balance by 100.
C22_Scenario1And2 ==
  [][/\ \A t \in TradeObjects' :
          (nextKey' # nextKey /\ t.key = nextKey' /\ IsScenario1(t) /\ rValue = N(100))
          => t.riskAmount = N(100) /\ t.positionSize = N(5000)
     /\ \A j \in DOMAIN trades, k \in DOMAIN trades' :
          (/\ trades[j].key = trades'[k].key
           /\ IsScenario1(trades[j])
           /\ trades[j].riskAmount = N(100) /\ trades[j].positionSize = N(5000)
           /\ ~IsClosed(trades[j]) /\ IsClosed(trades'[k])
           /\ trades'[k].closePrice = N(51000))
          => /\ trades'[k].pnlDollar = N(100)
             /\ trades'[k].rResult = N(1)
             /\ balance' = NumAdd(balance, N(100))]_vars

\* scenario 1 closed at 51000 through the backend
C22_Witness ==
  /\ supabaseConnected
  /\ \E j \in DOMAIN trades :
       /\ IsScenario1(trades[j]) /\ IsClosed(trades[j])
       /\ trades[j].positionSize = N(5000)
       /\ trades[j].closePrice = N(51000)
       /\ trades[j].pnlDollar = N(100)
  /\ balance = N(DefaultBalance + 100)

\* C23 as the spec states it: a short trade with openPrice 3000, stopLoss 3060
\* and riskAmount 200 has positionSize 10000, and the step that closes it at
\* 2940 gives pnlDollar 200 and rResult 1, whatever R value and risk multiple
\* make up the 200.
C23_Scenario3RResultIsOne ==
  [][/\ \A t \in TradeObjects' : IsScenario3(t) => t.positionSize = N(10000)
     /\ \A j \in DOMAIN trades, k \in DOMAIN trades' :
          (/\ trades[j].key = trades'[k].key
           /\ IsScenario3(trades[j])
           /\ ~IsClosed(trades[j]) /\ IsClosed(trades'[k])
           /\ trades'[k].closePrice = N(2940))
          => /\ trades'[k].pnlDollar = N(200)
             /\ trades'[k].rResult = N(1)]_vars

\* C23 as the code has it: the same, with rResult equal to the trade's risk
\* multiple (200 over the R value at open), which is 1 only for R = 200 and
\* risk multiple 1.
C23_Scenario3RResultIsMultiple ==
  [][/\ \A t \in TradeObjects' : IsScenario3(t) => t.positionSize = N(10000)
     /\ \A j \in DOMAIN trades, k \in DOMAIN trades' :
          (/\ trades[j].key = trades'[k].key
           /\ IsScenario3(trades[j])
           /\ ~IsClosed(trades[j]) /\ IsClosed(trades'[k])
           /\ trades'[k].closePrice = N(2940))
          => /\ trades'[k].pnlDollar = N(200)
             /\ trades'[k].rResult = trades[j].riskMultiple]_vars

\* scenario 3 opened at R = 100 with the 2R button and closed at 2940
C23_Witness ==
  \E j \in DOMAIN trades :
    /\ IsScenario3(trades[j]) /\ IsClosed(trades[j])
    /\ trades[j].riskMultiple = N(2)
    /\ trades[j].closePrice = N(2940)
    /\ trades[j].rResult = N(2)

\* the closing fields of closed are the ones handleCloseTrade computes from the
\* open trade and the close price
ClosedAsComputed(open, closed) ==
  /\ closed.status = "closed"
  /\ closed.pnlPercent = PnlPercent(open, closed.closePrice)
  /\ closed.pnlDollar = PnlDollar(open, closed.closePrice)
  /\ closed.rResult = RResult(open, closed.closePrice)
  /\ OpenSideFields(closed) = OpenSideFields(open)

\* C24: a step that closes an open trade leaves it with the computed closing
\* fields and adds the computed pnlDollar to the balance once, and this outcome
\* is the same whether the persistence call failed, succeeded or was not made
\* (stated for lists with pairwise distinct ids and finite position sizes).
C24_CloseOutcomeSameOnEveryPath ==
  [][\A j \in DOMAIN trades, k \in DOMAIN trades' :
       (/\ DistinctIds(trades) /\ FiniteSizes(trades)
        /\ trades[j].key = trades'[k].key
        /\ ~IsClosed(trades[j]) /\ IsClosed(trades'[k]))
       => /\ ClosedAsComputed(trades[j], trades'[k])
          /\ balance' = NumAdd(balance, PnlDollar(trades[j], trades'[k].closePrice))]_vars

\* the failure path alone: when the close request that resumes has failed, the
\* open trade it names is closed with the values the request carries and the
\* balance grows by its pnlDollar
FailedCloseStillClosesLocally ==
  [][\A i \in DOMAIN inflight, j \in DOMAIN trades :
       (/\ DistinctIds(trades)
        /\ inflight[i].op = "close" /\ inflight[i].reply \in {"error", "throw"}
        /\ ResumeCloseTrade(i)
        /\ trades[j].id = inflight[i].tradeId /\ ~IsClosed(trades[j]))
       => /\ trades'[j] = [trades[j] EXCEPT !.status = "closed",
                                            !.closePrice = inflight[i].closePrice,
                                            !.closeDate = inflight[i].closeDate,
                                            !.pnlPercent = inflight[i].pnlPercent,
                                            !.pnlDollar = inflight[i].pnlDollar,
                                            !.rResult = inflight[i].rResult,
                                            !.comment = inflight[i].comment]
          /\ balance' = NumAdd(balance, inflight[i].pnlDollar)]_vars

\* C25: until the settings load has completed the backend's settings row is
\* what it was before the app started, and once it has completed the balance
\* (and the R value) of the app are the ones the backend held before startup.
C25_StoredSettingsSurviveStartup ==
  /\ startup # "loaded" => settingsRow = StoredSettings
  /\ startup = "loaded" =>
       /\ balance = StoredSettings.balance
       /\ rValue = StoredSettings.r_value

\* C26: a close request for an id that is not in the trade list changes
\* neither the list nor the balance and makes no persistence call.
C26_UnknownIdCloseHasNoEffect ==
  [][\A id \in KnownIds, p \in PriceValues, c \in Comments :
       (id \notin Ids(trades) /\ StaleCloseTrade(id, p, c))
       => /\ trades' = trades
          /\ balance' = balance
          /\ inflight' = inflight
          /\ db' = db]_vars

\* without a backend, two trades were opened, the first one was deleted and a
\* close was confirmed (the fourth operation): nothing but a close for the
\* deleted trade's id is left as that operation
C26_Witness ==
  /\ ~supabaseConnected
  /\ nextKey = 2 /\ Len(trades) = 1 /\ trades[1].key = 2
  /\ ops = 4
  /\ trades[1].status = "open"
  /\ balance = N(DefaultBalance)

\* the creation serials of the listed trades, and the create requests that
\* have not resumed
KeysOf(list) == {list[j].key : j \in DOMAIN list}

PendingCreates == {i \in DOMAIN inflight : inflight[i].op = "create"}

\* C27: every handleNewTrade call ends with exactly one more trade in the
\* list: after every step the listed trades and the calls still waiting for
\* the backend add up to the calls made, so no trade is lost or added twice;
\* the step that adds the trade puts it, with status 'open', in front of the
\* unchanged previous list and leaves the balance unchanged.
C27_NewTradeAddedExactlyOnce ==
  [][/\ Len(trades') + Cardinality(PendingCreates') = nextKey'
     /\ Cardinality(KeysOf(trades')) = Len(trades')
     /\ KeysOf(trades') # KeysOf(trades)
        => /\ Len(trades') = Len(trades) + 1
           /\ trades'[1].key \notin KeysOf(trades)
           /\ trades'[1].status = "open"
           /\ Tail(trades') = trades
           /\ balance' = balance]_vars

\* with a backend, one trade was stored (database id) and the other fell back
\* to the local list after a failed insert, in front of a closed trade
C27_Witness ==
  /\ supabaseConnected
  /\ Len(trades) = 2
  /\ trades[1].id[1] = "ts" /\ trades[1].status = "open"
  /\ trades[2].id[1] = "uuid" /\ IsClosed(trades[2])
  /\ balance # N(DefaultBalance)

\* the step in which handleDeleteTrade(id) reaches its end or is abandoned
DeleteEnds(id) ==
  \/ ~supabaseConnected /\ DeleteTrade(id)
  \/ \E i \in DOMAIN inflight :
       /\ inflight[i].op = "delete" /\ inflight[i].tradeId = id
       /\ ResumeDeleteTrade(i)

\* list' is list without one trade, which has the given id
RemovedOne(list, id, after) ==
  \E j \in DOMAIN list :
    /\ list[j].id = id
    /\ after = SubSeq(list, 1, j - 1) \o SubSeq(list, j + 1, Len(list))

\* C28: when a delete of a listed trade ends, whatever the backend replied,
\* the list is the previous list without exactly one trade, the one with that
\* id, and the balance (also after deleting a closed trade) and the R value
\* are unchanged.
C28_DeleteRemovesExactlyThatTrade ==
  [][\A id \in Ids(trades) :
       DeleteEnds(id) => /\ RemovedOne(trades, id, trades')
                         /\ balance' = balance
                         /\ rValue' = rValue]_vars

\* the same for a delete of an id that one trade has and that the backend
\* answered by a result (data or error)
UniqueDeleteRemovesExactlyThatTrade ==
  [][\A id \in Ids(trades) :
       (/\ DeleteEnds(id)
        /\ Cardinality({j \in DOMAIN trades : trades[j].id = id}) = 1
        /\ \A i \in DOMAIN inflight :
             (inflight[i].op = "delete" /\ inflight[i].tradeId = id)
             => inflight[i].reply # "throw")
       => /\ RemovedOne(trades, id, trades')
          /\ balance' = balance
          /\ rValue' = rValue]_vars

\* a closed trade was deleted and its profit is still in the balance
ClosedTradeDeleted ==
  /\ trades = <<>> /\ nextKey = 1 /\ balance # N(DefaultBalance)

\* App.displayedBalance: base balance plus the unrealized total
displayedBalance(base, list, currentPrice) ==
  NumAdd(base, TotalUnrealizedPnL(list, currentPrice))

\* C29: when the user sets the displayed balance to X, the base balance
\* becomes X minus the unrealized total and the displayed balance is X again;
\* a price update, which changes the unrealized total, leaves the base
\* balance unchanged.
C29_DisplayedBalanceRoundTrip ==
  [][/\ \A x \in DisplayedInputs :
          HandleBalanceSubmit(x)
          => /\ balance' = NumSub(x, TotalUnrealizedPnL(trades, prices))
             /\ displayedBalance(balance', trades', prices') = x
     /\ (\E p \in PriceValues : PriceUpdate(p)) => balance' = balance]_vars

\* the same while the unrealized total is a finite number
FiniteDisplayedBalanceRoundTrip ==
  [][/\ \A x \in DisplayedInputs :
          (HandleBalanceSubmit(x) /\ IsFinite(TotalUnrealizedPnL(trades, prices)))
          => /\ balance' = NumSub(x, TotalUnrealizedPnL(trades, prices))
             /\ displayedBalance(balance', trades', prices') = x
     /\ (\E p \in PriceValues : PriceUpdate(p)) => balance' = balance]_vars

\* the balance was edited while an open trade had a finite, non-zero
\* unrealized result
EditedWithUnrealized ==
  /\ IsFinite(TotalUnrealizedPnL(trades, prices))
  /\ TotalUnrealizedPnL(trades, prices) # N(0)
  /\ balance # N(DefaultBalance)
  /\ displayedBalance(balance, trades, prices) = N(DefaultBalance)
  /\ \A j \in DOMAIN trades : trades[j].status = "open"

\* C30: the price state is only ever assigned a price obtained for the
\* current symbol, so a price that arrives late for the previous symbol is
\* discarded; at most one price socket is open at any time and none after
\* unmount.
C30_NoPriceOfPreviousSymbol ==
  [][/\ (livePrice' # livePrice /\ livePrice' # NULL) => livePrice'.symbol = liveSymbol'
     /\ Cardinality(liveSockets') <= 1
     /\ ~hookMounted' => liveSockets' = {}]_vars

\* the socket part alone: messages come from the current symbol's socket
\* only, at most one socket is open, and none after unmount
OneSocketOfCurrentSymbol ==
  /\ Cardinality(liveSockets) <= 1
  /\ \A ws \in liveSockets : ws.symbol = liveSymbol /\ ws = wsRef
  /\ ~hookMounted => liveSockets = {}

\* a price of another symbol than the current one is assigned by a settling
\* fetch only
OnlyFetchAssignsPreviousSymbol ==
  [][(livePrice' # livePrice /\ livePrice' # NULL /\ livePrice'.symbol # liveSymbol')
     => \E f \in liveFetches :
          /\ f.symbol # liveSymbol
          /\ liveFetches' = liveFetches \ {f}
          /\ livePrice'.symbol = f.symbol]_vars

\* the symbol changed while the first symbol's fetch was still pending
FetchOfPreviousSymbolPending ==
  /\ liveSymbol = "ETH"
  /\ \E f \in liveFetches : f.symbol = "BTC"
  /\ Cardinality(liveSockets) = 1

----------------------------------------------------------------------------
(* Properties of the tearsheet                                             *)

\* every trade handed over lacks closeDate or pnlDollar (or there is none)
NothingClosed ==
  \A i \in DOMAIN closedTrades :
     closedTrades[i].closeDate = NULL \/ closedTrades[i].pnlDollar = NULL

\* C15 as the spec states it: with no trade or a single closed trade the
\* maximum drawdown is 0 and the Sharpe ratio is null.
C15_EmptyOrSingleHasZeroDrawdown ==
  Len(closedTrades) <= 1 =>
    /\ tearsheet.metrics.maxDrawdown = N(0)
    /\ tearsheet.metrics.sharpeRatio = NULL

\* C15 as the code has it: with no usable trade the maximum drawdown and the
\* Sharpe ratio are both null; with a single closed trade the Sharpe ratio is
\* null and the maximum drawdown is -r when the trade's return r is negative
\* and 0 otherwise.
C15_EmptyOrSingleDrawdown ==
  Len(closedTrades) <= 1 =>
    /\ tearsheet.metrics.sharpeRatio = NULL
    /\ NothingClosed => tearsheet.metrics.maxDrawdown = NULL
    /\ ~NothingClosed =>
         /\ Len(tearsheet.returnSeries) = 1
         /\ tearsheet.metrics.maxDrawdown
              = (IF NumGt(N(0), tearsheet.returnSeries[1].return)
                 THEN NumNeg(tearsheet.returnSeries[1].return) ELSE N(0))

\* a single losing trade: its loss is the maximum drawdown
C15_Witness ==
  /\ Len(closedTrades) = 1
  /\ ~NothingClosed
  /\ NumGt(N(0), tearsheet.returnSeries[1].return)
  /\ NumGt(tearsheet.metrics.maxDrawdown, N(0))

\* C16: when no trade has both closeDate and pnlDollar (the empty list
\* included), the return series, the equity curve, the drawdown curve and the
\* histogram are empty, the heatmap has no years and all six metrics are null.
C16_NothingClosedGivesEmptyTearsheet ==
  NothingClosed =>
    /\ tearsheet.returnSeries = <<>>
    /\ tearsheet.equityData = <<>>
    /\ tearsheet.drawdownData = <<>>
    /\ tearsheet.histogramData = <<>>
    /\ tearsheet.heatmap.years = <<>>
    /\ \A f \in {"cumulativeReturn", "annualizedReturn", "annualizedVolatility",
                 "sharpeRatio", "maxDrawdown", "sortinoRatio"} :
          tearsheet.metrics[f] = NULL

\* trades were handed over, but none of them is usable
C16_Witness ==
  /\ Len(closedTrades) = 2
  /\ NothingClosed
  /\ closedTrades[1].closeDate # NULL
  /\ closedTrades[2].pnlDollar # NULL
  /\ tearsheet.returnSeries = <<>>

\* C17: every return of the series lies in [-2, 2], is computed against a
\* balanceBefore of at least 1, and the running balance never goes negative.
C17_ReturnsCappedAndBalancesFloored ==
  \A i \in DOMAIN tearsheet.returnSeries :
     /\ NumGe(tearsheet.returnSeries[i].return, N(-2))
     /\ NumGe(N(2), tearsheet.returnSeries[i].return)
     /\ NumGe(tearsheet.returnSeries[i].balanceBefore, N(1))
     /\ NumGe(tearsheet.returnSeries[i].running, N(0))

\* every pnlDollar handed over is finite (or missing)
FinitePnl ==
  \A i \in DOMAIN closedTrades : closedTrades[i].pnlDollar.k \in {"num", "null"}

\* the same for finite pnlDollar: the caps, the floor and the clamp hold
FiniteReturnsCappedAndBalancesFloored ==
  FinitePnl => C17_ReturnsCappedAndBalancesFloored

\* both caps are hit, the running balance is clamped at 0 and the next return
\* is computed against 1
CapsAndFloorsReached ==
  \E i, j \in DOMAIN tearsheet.returnSeries :
     /\ tearsheet.returnSeries[i].return = N(-2)
     /\ tearsheet.returnSeries[i].balanceBefore = N(1)
     /\ tearsheet.returnSeries[i].running = N(0)
     /\ tearsheet.returnSeries[j].return = N(2)

\* the sum of pnlDollar over the trades that have a close date and a pnlDollar
RECURSIVE UsablePnlSum(_)
UsablePnlSum(list) ==
  IF list = <<>> THEN N(0)
  ELSE NumAdd(UsablePnlSum(Tail(list)),
              IF Head(list).closeDate # NULL /\ Head(list).pnlDollar # NULL
              THEN Head(list).pnlDollar ELSE N(0))

\* initialBalance minus the total PnL, and the least value taken as sensible
RawStartBalance == NumSub(initialBalance, UsablePnlSum(closedTrades))

MinSensible == MathMax(NumMul(initialBalance, Q(1, 10)), N(100))

DrawdownCurveMatchesMetric ==
  LET deepest == NumMul(tearsheet.metrics.maxDrawdown, N(100))
  IN /\ \A i \in DOMAIN tearsheet.drawdownData :
          /\ NumGe(NumNeg(tearsheet.drawdownData[i].value), N(0))
          /\ NumGe(deepest, NumNeg(tearsheet.drawdownData[i].value))
     /\ \E i \in DOMAIN tearsheet.drawdownData :
          NumNeg(tearsheet.drawdownData[i].value) = deepest

\* C19: for every non-empty return series maxDrawdown * 100 is the largest
\* magnitude of the drawdown curve, and every drawdown is at least 0.
C19_MaxDrawdownIsDeepestPoint ==
  tearsheet.returnSeries # <<>> => DrawdownCurveMatchesMetric

\* the same for finite pnlDollar
FiniteMaxDrawdownIsDeepestPoint ==
  FinitePnl => C19_MaxDrawdownIsDeepestPoint

\* a gain followed by a loss: the drawdown is measured from the peak above 1
DrawdownFromPeakReached ==
  /\ FinitePnl
  /\ Len(tearsheet.returnSeries) = 3
  /\ NumGt(tearsheet.returnSeries[1].return, N(0))
  /\ NumGt(N(0), tearsheet.returnSeries[2].return)
  /\ NumGt(tearsheet.metrics.maxDrawdown, NumNeg(tearsheet.returnSeries[2].return))

\* the series has at least one return and every return is 0
AllZeroReturns ==
  /\ tearsheet.returnSeries # <<>>
  /\ \A i \in DOMAIN tearsheet.returnSeries : tearsheet.returnSeries[i].return = N(0)

\* C20: when every return of the series is 0, every point of the equity curve
\* shows a growth of 0, every point of the drawdown curve is 0 and maxDrawdown
\* is 0. (The series has at least one return; the empty series is C16's case.)
C20_AllZeroSeriesIsFlat ==
  AllZeroReturns =>
    /\ Len(tearsheet.equityData) = Len(tearsheet.returnSeries)
    /\ Len(tearsheet.drawdownData) = Len(tearsheet.returnSeries)
    /\ \A i \in DOMAIN tearsheet.equityData : tearsheet.equityData[i].value = N(0)
    /\ \A i \in DOMAIN tearsheet.drawdownData : tearsheet.drawdownData[i].value = N(0)
    /\ tearsheet.metrics.maxDrawdown = N(0)

\* three break-even trades on two dates
C20_Witness ==
  /\ AllZeroReturns
  /\ Len(tearsheet.returnSeries) = 3
  /\ tearsheet.returnSeries[1].date # tearsheet.returnSeries[3].date
  /\ tearsheet.equityData[3].value = N(0)
  /\ tearsheet.drawdownData[3].value = N(0)

\* no return of the series is negative: the downside deviation is 0
NoDownside ==
  \A i \in DOMAIN tearsheet.returnSeries :
     ~NumGt(N(0), tearsheet.returnSeries[i].return)

\* C21: for every non-empty return series the year span is at least 1/365.25,
\* the Sharpe ratio is null exactly when the annualized volatility is 0, and
\* the Sortino ratio is null exactly when the downside deviation is 0.
C21_NullExactlyWhenDenominatorZero ==
  tearsheet.returnSeries # <<>> =>
    /\ NumGe(YearSpan(tearsheet.returnSeries), Q(4, 1461))
    /\ tearsheet.metrics.sharpeRatio = NULL
         <=> tearsheet.metrics.annualizedVolatility = N(0)
    /\ tearsheet.metrics.sortinoRatio = NULL <=> NoDownside

\* the same for finite pnlDollar
FiniteNullExactlyWhenDenominatorZero ==
  FinitePnl => C21_NullExactlyWhenDenominatorZero

\* equal dates, a zero-variance series and a series with both ratios present
ZeroVarianceAndRatiosReached ==
  /\ FinitePnl
  /\ \/ /\ Len(tearsheet.returnSeries) = 2
        /\ tearsheet.returnSeries[1].date = tearsheet.returnSeries[2].date
        /\ tearsheet.returnSeries[1].return = tearsheet.returnSeries[2].return
        /\ tearsheet.returnSeries[1].return # N(0)
        /\ tearsheet.metrics.sharpeRatio = NULL
     \/ /\ tearsheet.returnSeries # <<>>
        /\ tearsheet.metrics.sharpeRatio # NULL
        /\ tearsheet.metrics.sortinoRatio # NULL

====
